---------------------------- MODULE Spec2Model ----------------------------
(***************************************************************************)
(* A model of mcpenetes' client-config translation and merge engine       *)
(* (internal/translator/translator.go) and of the commands that drive it   *)
(* (cmd/apply.go, cmd/reload.go, cmd/restore.go).                          *)
(*                                                                         *)
(* Spec is the translator on one client file: TranslateAndApply and        *)
(* RemoveClientServers.  CmdSpec is the commands on a configuration of     *)
(* clients: backup, apply of every server, restore.                        *)
(* RaceSpec is two calls of TranslateAndApply on one file at once,         *)
(* FanSpec the fetch of every registry by its own goroutine, ConfSpec      *)
(* config.yaml under LoadConfig, SaveConfig and the commands that save it, *)
(* CacheSpec the registry cache and the fetchers that read it, PageSpec    *)
(* the page loop of the fetchers.  Each section below describes its own    *)
(* state.                                                                  *)
(*                                                                         *)
(* Go strings are TLA+ strings (TLC evaluates Len, SubSeq and \o on them). *)
(* A JSON value is a tagged tuple, the tree encoding/json decodes into     *)
(* interface{} :                                                           *)
(*    <<"null">>  <<"bool", b>>  <<"str", s>>  <<"arr", seq>>  <<"obj", f>>*)
(* with f a function from strings (the keys) to JSON values.               *)
(*                                                                         *)
(* The content of the client's file is one of                              *)
(*    <<"absent">>        no file at the path                              *)
(*    <<"empty">>         a file of length 0                               *)
(*    <<"text", s>>       bytes that are not JSON                          *)
(*    <<"json", v>>       bytes that are the JSON document v               *)
(*    <<"yaml", id, r>>   yaml.Marshal of map[string]MCPServer{id: r}      *)
(*    <<"toml", id, r>>   the TOML encoding of the same map                *)
(*    <<"dir">>           a directory at the path                          *)
(*    <<"unreadable">>    a file the process may write but not read; no    *)
(*                        read of it succeeds, so its bytes are not kept   *)
(* json.MarshalIndent writes the keys of every map sorted, so the bytes it *)
(* produces are a function of the tree: two files it wrote are byte-equal  *)
(* exactly when their trees are equal.                                     *)
(*                                                                         *)
(* os.WriteFile and os.Create succeed on a path that is not a directory,   *)
(* and os.Stat fails only where nothing is at the path.  The home          *)
(* directory resolves in the translator; BackupClientConfig is told        *)
(* whether it does.  Where a regular file is at the backup path,           *)
(* os.MkdirAll and os.ReadDir fail on it.                                  *)
(***************************************************************************)
EXTENDS Integers, Sequences, FiniteSets, TLC

VARIABLES
    clientName,   \* the client identity (key of cfg.Clients)
    configPath,   \* clientConf.ConfigPath
    MCPServers,   \* t.MCPConfig.MCPServers: identifier -> MCPServer (mcp.json as
                  \* config.LoadMCPConfig() read it for the translator)
    file,         \* content of the file at the expanded configPath
    prev,         \* content of that file before the last operation
    last,         \* the last operation: its input and what it did
    before,       \* the operation before the last one
    steps,        \* operations performed so far
    \* the commands (cmd/apply.go, cmd/reload.go, cmd/restore.go, cmd/load.go)
    configClients,   \* the clients of config.yaml: client identity -> ConfigPath
    cfgClients,      \* cfg.Clients of the command: those of config.yaml, or for
                     \* apply the detected ones when config.yaml has none
    held,            \* what an apply that waits at its prompts has read:
                     \* cfg.Clients and mcp.json, NoApply when none waits
    fs,              \* content of the file at each client's path
    backupDirAt,     \* what is at the backup path: "absent", "dir" (the backup
                     \* directory) or "file" (a regular file)
    backupFiles,     \* the files of the backup directory: name -> content
    clock,           \* the current second
    running,         \* the command that is running, "idle" when none is
    selected,        \* the identities of selectedClientMap (all, for reload)
    toApply,         \* the keys of mcp.json the command applies to a client
    pending,         \* clients the loop has not reached yet
    current,         \* clientName of the iteration, "" between iterations
    todo,            \* keys the inner loop has not reached yet
    clientSuccess,   \* clientSuccess of the iteration
    successCount,    \* clientSuccessCount / successCount
    failureCount,    \* clientFailureCount / failureCount
    exit,            \* exit status of the last command, -1 when none ended
    events,          \* what the command has done so far, in order
    taken,           \* per client, the content of the last backup taken of it
    runs,            \* commands run so far (an apply counts when it ends or
                     \* reaches its loop)
    mcpFile,         \* mcp.json: identifier -> MCPServer
    clipboard,       \* what the clipboard holds
    \* two concurrent calls of TranslateAndApply on one file
    pc,              \* per call, the step it is at
    existingFile,    \* per call, what os.ReadFile returned to it
    outputData,      \* per call, what TranslateAndApply computed from it
    trace,           \* the steps taken so far, in order
    \* the registry fan-out of list and use
    registries,      \* cfg.Registries
    mode,            \* "list" (listCmd.Run) or "use" (getAvailableServerChoices)
    next,            \* the index of the registry the loop spawns next
    mainPc,          \* where the command is: "loop", "read", "done"
    worker,          \* per registry, where its goroutine is
    fetchResult,     \* per registry, what FetchMCPList returned to its goroutine
    mu,              \* the holder of the mutex, 0 when it is free
    wg,              \* the counter of the WaitGroup
    registryResults, \* the shared result map (mcpLists, registryResults)
    collected,       \* the result map as the command read it after the join
    \* config.yaml and the commands that load and save it
    configFile,      \* content of config.yaml
    saved,           \* the config handed to the last SaveConfig of a round trip
    loaded,          \* what the last LoadConfig returned
    confOp,          \* the last operation on config.yaml and its argument
    removed,         \* registry names removed and not added since
    using,           \* the config a use command has loaded and not yet saved,
                     \* NoUse when none has
    confSteps,       \* operations on config.yaml so far
    \* the response cache of the registries
    cacheFiles,      \* the files of the cache directory: cache key -> content
    now,             \* time.Now(), in minutes
    cacheOp,         \* the last cache operation: its arguments and results
    written,         \* per url, the versions of the last WriteCache that succeeded
    cacheSteps,      \* cache operations and clock steps so far
    inFlight,        \* per goroutine, the fetcher call that waits for the network
    \* the page loop of FetchMCPServers and FetchMCPList
    fetcher,         \* the function that runs: "FetchMCPList" or "FetchMCPServers"
    registryURL,     \* its url, after formatRegistryURL
    pages,           \* the registry: cursor of a request -> its response
    cursor,          \* cursor
    hasNextPage,     \* index.PageInfo.HasNextPage
    pagePc,          \* "first", "loop", "request" (a page request is out) or "done"
    requested,       \* the urls requested so far
    repeated         \* a url was requested that had been requested before

transVars == <<clientName, configPath, file, prev, last, before, steps>>

cmdVars == <<configClients, cfgClients, held, fs, backupDirAt, backupFiles, clock, running, selected,
             toApply, pending, current, todo, clientSuccess, successCount,
             failureCount, exit, events, taken, runs, mcpFile, clipboard>>

raceVars == <<pc, existingFile, outputData, trace>>

\* the variables of the specifications other than Spec and CmdSpec
fanVars == <<registries, mode, next, mainPc, worker, fetchResult, mu, wg,
             registryResults, collected>>

confVars == <<configFile, saved, loaded, confOp, removed, using, confSteps>>

cacheVars == <<cacheFiles, now, cacheOp, written, cacheSteps, inFlight>>

pageVars == <<fetcher, registryURL, pages, cursor, hasNextPage, pagePc, requested, repeated>>

restVars == <<raceVars, fanVars, confVars, cacheVars, pageVars>>

vars == <<transVars, MCPServers, cmdVars, restVars>>

(***************************************************************************)
(* Bounds of the model.                                                    *)
(***************************************************************************)
MaxOps == 2
MaxRuns == 2
MaxClock == 1

-----------------------------------------------------------------------------
(***************************************************************************)
(* package strings / path/filepath                                         *)
(***************************************************************************)
CharAt(s, i) == SubSeq(s, i, i)

\* strings.HasPrefix
HasPrefix(s, p) == Len(p) <= Len(s) /\ SubSeq(s, 1, Len(p)) = p

\* strings.TrimPrefix
TrimPrefix(s, p) == IF HasPrefix(s, p) THEN SubSeq(s, Len(p) + 1, Len(s)) ELSE s

\* strings.Contains
Contains(s, sub) ==
    \E i \in 1..(Len(s) + 1) :
        i + Len(sub) - 1 <= Len(s) /\ SubSeq(s, i, i + Len(sub) - 1) = sub

\* strings.Index for a one-character separator, counted from 1; 0 when absent
RECURSIVE IndexFrom(_, _, _)
IndexFrom(s, c, i) ==
    IF i > Len(s) THEN 0
    ELSE IF CharAt(s, i) = c THEN i
    ELSE IndexFrom(s, c, i + 1)

IndexChar(s, c) == IndexFrom(s, c, 1)

\* strings.Split(s, sep)[0] for a one-character separator: Split never
\* returns an empty slice for a non-empty separator, and its first element
\* is s up to the first separator (all of s when there is none).
SplitFirst(s, sep) ==
    IF IndexChar(s, sep) = 0 THEN s ELSE SubSeq(s, 1, IndexChar(s, sep) - 1)

UpperCase == "ABCDEFGHIJKLMNOPQRSTUVWXYZ"
LowerCase == "abcdefghijklmnopqrstuvwxyz"

UpperChars == {CharAt(UpperCase, i) : i \in 1..Len(UpperCase)}

LowerChar(c) ==
    IF c \notin UpperChars THEN c ELSE CharAt(LowerCase, IndexChar(UpperCase, c))

\* strings.ToLower
RECURSIVE ToLower(_)
ToLower(s) == IF s = "" THEN "" ELSE LowerChar(CharAt(s, 1)) \o ToLower(SubSeq(s, 2, Len(s)))

\* filepath.Ext: the suffix beginning at the final dot in the final
\* element of path; empty if there is no dot.
RECURSIVE ExtFrom(_, _)
ExtFrom(path, i) ==
    IF i = 0 \/ CharAt(path, i) = "/" THEN ""
    ELSE IF CharAt(path, i) = "." THEN SubSeq(path, i, Len(path))
    ELSE ExtFrom(path, i - 1)

Ext(path) == ExtFrom(path, Len(path))

\* os.UserHomeDir() of the process
HomeDir == "/home/u"

\* the elements of a path between its separators, the empty ones dropped
RECURSIVE Elements(_)
Elements(path) ==
    LET i == IndexChar(path, "/")
    IN  IF path = "" THEN <<>>
        ELSE IF i = 0 THEN <<path>>
        ELSE (IF i = 1 THEN <<>> ELSE <<SubSeq(path, 1, i - 1)>>)
             \o Elements(SubSeq(path, i + 1, Len(path)))

\* filepath.Clean on the elements: "." is dropped, ".." removes the element
\* before it, is dropped at the root and kept at the start of a relative path
RECURSIVE CleanElements(_, _, _)
CleanElements(elems, out, rooted) ==
    IF elems = <<>> THEN out
    ELSE IF Head(elems) = "." THEN CleanElements(Tail(elems), out, rooted)
    ELSE IF Head(elems) = ".."
    THEN IF Len(out) > 0 /\ out[Len(out)] # ".."
         THEN CleanElements(Tail(elems), SubSeq(out, 1, Len(out) - 1), rooted)
         ELSE IF rooted THEN CleanElements(Tail(elems), out, rooted)
         ELSE CleanElements(Tail(elems), Append(out, ".."), rooted)
    ELSE CleanElements(Tail(elems), Append(out, Head(elems)), rooted)

RECURSIVE JoinSlash(_)
JoinSlash(elems) ==
    IF elems = <<>> THEN ""
    ELSE IF Len(elems) = 1 THEN elems[1]
    ELSE elems[1] \o "/" \o JoinSlash(Tail(elems))

\* filepath.Clean
Clean(path) ==
    IF path = "" THEN "."
    ELSE LET rooted == HasPrefix(path, "/")
             out == CleanElements(Elements(path), <<>>, rooted)
         IN  IF rooted THEN "/" \o JoinSlash(out)
             ELSE IF out = <<>> THEN "."
             ELSE JoinSlash(out)

\* filepath.Join of two elements: empty elements are ignored, the others
\* are joined by a separator and the result is cleaned
Join(a, b) ==
    IF a = "" /\ b = "" THEN ""
    ELSE IF a = "" THEN Clean(b)
    ELSE IF b = "" THEN Clean(a)
    ELSE Clean(a \o "/" \o b)

\* util.ExpandPath: a leading ~ becomes the home directory
ExpandPath(path) ==
    IF ~HasPrefix(path, "~") THEN path ELSE Join(HomeDir, SubSeq(path, 2, Len(path)))

-----------------------------------------------------------------------------
(***************************************************************************)
(* fmt.Sprintf("%v", x) for []string and map[string]string                 *)
(***************************************************************************)
RECURSIVE JoinSpace(_)
JoinSpace(ss) ==
    IF Len(ss) = 0 THEN ""
    ELSE IF Len(ss) = 1 THEN ss[1]
    ELSE ss[1] \o " " \o JoinSpace(Tail(ss))

\* %v of a slice: [a b c]
FmtSlice(ss) == "[" \o JoinSpace(ss) \o "]"

\* byte order of the characters that occur in map keys and file names
KeyAlphabet == "-.0123456789ABCDEFGHIJKLMNOPQRSTUVWXYZ_abcdefghijklmnopqrstuvwxyz"

RECURSIVE StrLess(_, _)
StrLess(a, b) ==
    IF b = "" THEN FALSE
    ELSE IF a = "" THEN TRUE
    ELSE IF CharAt(a, 1) = CharAt(b, 1)
         THEN StrLess(SubSeq(a, 2, Len(a)), SubSeq(b, 2, Len(b)))
         ELSE IndexChar(KeyAlphabet, CharAt(a, 1)) < IndexChar(KeyAlphabet, CharAt(b, 1))

\* the keys of m in increasing order (fmt prints maps sorted by key)
RECURSIVE SortedKeys(_)
SortedKeys(keys) ==
    IF keys = {} THEN <<>>
    ELSE LET k == CHOOSE x \in keys : \A y \in keys \ {x} : StrLess(x, y)
         IN  <<k>> \o SortedKeys(keys \ {k})

RECURSIVE PairsOf(_, _)
PairsOf(m, ks) ==
    IF Len(ks) = 0 THEN <<>>
    ELSE <<ks[1] \o ":" \o m[ks[1]]>> \o PairsOf(m, Tail(ks))

\* %v of a map: map[k1:v1 k2:v2]
FmtMap(m) == "map[" \o JoinSpace(PairsOf(m, SortedKeys(DOMAIN m))) \o "]"

-----------------------------------------------------------------------------
(***************************************************************************)
(* config.MCPServer and the JSON tree                                      *)
(***************************************************************************)
\* config.MCPServer
MCPServer(command, args, url, env, disabled, autoApprove) ==
    [Command |-> command, Args |-> args, URL |-> url, Env |-> env,
     Disabled |-> disabled, AutoApprove |-> autoApprove]

NoEnv == <<>>

JNull == <<"null">>
JBool(b) == <<"bool", b>>
JStr(s) == <<"str", s>>
JArr(a) == <<"arr", a>>
JObj(f) == <<"obj", f>>

\* make(map[string]interface{})
EmptyMap == <<>>

\* a nil map[string]interface{}: reads find nothing, an assignment panics
NilMap == <<"nil">>

\* []string and map[string]string as encoding/json writes them
StrArr(ss) == JArr([i \in 1..Len(ss) |-> JStr(ss[i])])
StrMap(m) == JObj([k \in DOMAIN m |-> JStr(m[k])])

\* m[k] = v on a non-nil map
Put(f, k, v) == [x \in (DOMAIN f) \cup {k} |-> IF x = k THEN v ELSE f[x]]

\* delete(m, k) for every k of ks
Without(f, ks) == [x \in (DOMAIN f) \ ks |-> f[x]]

\* _, ok := m[k]   (m a Go map, possibly nil)
HasKey(m, k) == m[1] = "obj" /\ k \in DOMAIN m[2]

\* _, ok := m[k].(map[string]interface{})
IsMapAt(m, k) == HasKey(m, k) /\ m[2][k][1] = "obj"

\* v, _ := m[k].(map[string]interface{}), for the case ok
MapAt(m, k) == m[2][k][2]

-----------------------------------------------------------------------------
(***************************************************************************)
(* TranslateAndApply: the server ID                                        *)
(***************************************************************************)
\* the comparison of the lookup loop
Matches(server, serverConf) ==
    /\ server.Command = serverConf.Command
    /\ server.URL = serverConf.URL
    /\ FmtSlice(server.Args) = FmtSlice(serverConf.Args)
    /\ FmtMap(server.Env) = FmtMap(serverConf.Env)

MatchingIDs(servers, serverConf) ==
    {id \in DOMAIN servers : Matches(servers[id], serverConf)}

\* The values serverID can have after the loop.  Go ranges over a map in an
\* unspecified order and the loop stops at the first match, so any matching
\* key can be the one found; serverID stays "" when nothing matches.
LookupIDs(servers, serverConf) ==
    IF MatchingIDs(servers, serverConf) = {} THEN {""}
    ELSE MatchingIDs(servers, serverConf)

\* the fallback branch, taken when serverID == "" after the loop
FallbackID(serverConf) ==
    IF serverConf.Command # "" THEN SplitFirst(serverConf.Command, " ")
    ELSE IF serverConf.URL # ""
         THEN SplitFirst(TrimPrefix(TrimPrefix(serverConf.URL, "https://"), "http://"), "/")
         ELSE "mcp-server"

\* serverID as used for the write, found being the loop's result
ResolveID(found, serverConf) ==
    IF found = "" THEN FallbackID(serverConf) ELSE found

-----------------------------------------------------------------------------
(***************************************************************************)
(* TranslateAndApply: the existing file and the adapter                    *)
(***************************************************************************)
\* os.ReadFile + json.Unmarshal(existingFile, &existingConfig): configExists
\* holds when the file is non-empty and Unmarshal returns no error.  A
\* document that is not an object (array, string, bool) is a type error;
\* null is no error and sets the map to nil.
ConfigExistsNever(f) == FALSE

ConfigExists(f) ==
    /\ f[1] = "json"
    /\ f[2][1] \in {"obj", "null"}

ExistingConfig(f) ==
    IF ~ConfigExists(f) THEN JObj(EmptyMap)
    ELSE IF f[2][1] = "null" THEN NilMap
    ELSE f[2]

\* the switch on clientName
AdapterVariant(name) ==
    IF Contains(name, "claude-desktop") THEN "claude-desktop"
    ELSE IF Contains(name, "windsurf") \/ Contains(name, "cursor") THEN "windsurf"
    ELSE IF Contains(name, "vscode") THEN "vscode"
    ELSE "generic"

\* format := strings.ToLower(filepath.Ext(clientConfigPath))
Format(path) == ToLower(Ext(ExpandPath(path)))

\* the value stored under a field of a server entry
FieldValue(serverConf, k) ==
    CASE k = "command"     -> JStr(serverConf.Command)
      [] k = "args"        -> StrArr(serverConf.Args)
      [] k = "env"         -> StrMap(serverConf.Env)
      [] k = "url"         -> JStr(serverConf.URL)
      [] k = "disabled"    -> JBool(serverConf.Disabled)
      [] k = "autoApprove" -> StrArr(serverConf.AutoApprove)

\* the fields every JSON adapter copies when they are set
BasicFields(serverConf) ==
    {k \in {"command"} : serverConf.Command # ""}
    \cup {k \in {"args"} : Len(serverConf.Args) > 0}
    \cup {k \in {"env"} : DOMAIN serverConf.Env # {}}
    \cup {k \in {"url"} : serverConf.URL # ""}

\* serverEntry of the claude-desktop case: autoApprove is always written
ClaudeEntry(serverConf) ==
    JObj([k \in BasicFields(serverConf)
                \cup {x \in {"disabled"} : serverConf.Disabled}
                \cup {"autoApprove"} |-> FieldValue(serverConf, k)])

\* serverEntry of the windsurf/cursor case
WindsurfEntry(serverConf) ==
    JObj([k \in BasicFields(serverConf) |-> FieldValue(serverConf, k)])

VSCodeEntryWithoutElse(serverConf) ==
    JObj([k \in BasicFields(serverConf) |-> FieldValue(serverConf, k)])

\* serverEntry of the vscode case: env is always written
VSCodeEntry(serverConf) ==
    JObj([k \in BasicFields(serverConf) \cup {"env"} |-> FieldValue(serverConf, k)])

\* serverMap of the generic .json case: autoApprove is always written
GenericEntry(serverConf) ==
    JObj([k \in BasicFields(serverConf)
                \cup {x \in {"disabled"} : serverConf.Disabled}
                \cup {"autoApprove"} |-> FieldValue(serverConf, k)])

\* what a case of the switch leaves in outputData, or the panic of an
\* assignment to an entry of a nil map
Panic == <<"panic">>

\* case strings.Contains(clientName, "claude-desktop")
ClaudeDocument(configExists, existingConfig, serverID, serverConf) ==
    LET claudeConfig ==
            IF configExists THEN existingConfig
            ELSE JObj(Put(EmptyMap, "mcpServers", JObj(EmptyMap)))
        mcpServers ==
            IF IsMapAt(claudeConfig, "mcpServers") THEN MapAt(claudeConfig, "mcpServers")
            ELSE EmptyMap
        updated == Put(mcpServers, serverID, ClaudeEntry(serverConf))
    IN  IF claudeConfig = NilMap THEN Panic
        ELSE JObj(Put(claudeConfig[2], "mcpServers", JObj(updated)))

WindsurfDocumentFresh(configExists, existingConfig, serverID, serverConf) ==
    LET windsurfConfig == IF configExists THEN existingConfig ELSE JObj(EmptyMap)
    IN  IF windsurfConfig = NilMap THEN Panic
        ELSE JObj(Put(windsurfConfig[2], "mcpServers",
                      JObj(Put(EmptyMap, serverID, WindsurfEntry(serverConf)))))

\* case strings.Contains(clientName, "windsurf") || strings.Contains(clientName, "cursor")
WindsurfDocument(configExists, existingConfig, serverID, serverConf) ==
    LET windsurfConfig == IF configExists THEN existingConfig ELSE JObj(EmptyMap)
        mcpServers ==
            IF IsMapAt(windsurfConfig, "mcpServers") THEN MapAt(windsurfConfig, "mcpServers")
            ELSE EmptyMap
        updated == Put(mcpServers, serverID, WindsurfEntry(serverConf))
    IN  IF windsurfConfig = NilMap THEN Panic
        ELSE JObj(Put(windsurfConfig[2], "mcpServers", JObj(updated)))

\* case strings.Contains(clientName, "vscode")
VSCodeDocument(configExists, existingConfig, serverID, serverConf) ==
    LET vscodeConfig == IF configExists THEN existingConfig ELSE JObj(EmptyMap)
        mcpObj ==
            IF IsMapAt(vscodeConfig, "mcp") THEN MapAt(vscodeConfig, "mcp")
            ELSE Put(EmptyMap, "inputs", JArr(<<>>))
        mcpServers ==
            IF IsMapAt(JObj(mcpObj), "servers") THEN MapAt(JObj(mcpObj), "servers")
            ELSE EmptyMap
        updated == Put(mcpServers, serverID, VSCodeEntry(serverConf))
    IN  IF vscodeConfig = NilMap THEN Panic
        ELSE JObj(Put(vscodeConfig[2], "mcp", JObj(Put(mcpObj, "servers", JObj(updated)))))

\* default, case ".json"
GenericDocument(configExists, existingConfig, serverID, serverConf) ==
    LET genericConfig == IF configExists THEN existingConfig ELSE JObj(EmptyMap)
        mcpServers ==
            IF IsMapAt(genericConfig, "mcpServers") THEN MapAt(genericConfig, "mcpServers")
            ELSE EmptyMap
        updated == Put(mcpServers, serverID, GenericEntry(serverConf))
    IN  IF genericConfig = NilMap THEN Panic
        ELSE JObj(Put(genericConfig[2], "mcpServers", JObj(updated)))

\* what TranslateAndApply does: result is "ok" (nil returned, the file
\* written), "error" (an error returned before any write) or "panic"; err is
\* the message of the error returned.
Outcome(result, variant, id, f, wrote) ==
    [result |-> result, variant |-> variant, id |-> id, file |-> f, wrote |-> wrote,
     err |-> ""]

\* return fmt.Errorf(...), nothing written
Failed(variant, id, f, msg) ==
    [Outcome("error", variant, id, f, FALSE) EXCEPT !.err = msg]

UnsupportedFormatErrorBare(format, name) == "unsupported config format"

\* fmt.Errorf("unsupported config format '%s' for client %s", format, clientName)
UnsupportedFormatError(format, name) ==
    "unsupported config format '" \o format \o "' for client " \o name

NonJSONWrittenKeepsExisting(kind, f, serverID, serverConf) ==
    IF f[1] = kind THEN f ELSE <<kind, serverID, serverConf>>

\* serverMap := map[string]config.MCPServer{serverID: serverConf} marshalled
\* as YAML or TOML: the existing content f of the file is not used
NonJSONWritten(kind, f, serverID, serverConf) == <<kind, serverID, serverConf>>

Written(variant, id, f, doc) ==
    IF doc = Panic THEN Outcome("panic", variant, id, f, FALSE)
    ELSE Outcome("ok", variant, id, <<"json", doc>>, TRUE)

\* TranslateAndApply(clientName, clientConf, serverConf), found being the
\* key the lookup loop stopped at and f the content of the client's file
TranslateAndApply(name, path, found, serverConf, f) ==
    LET serverID == ResolveID(found, serverConf)
        format == Format(path)
        configExists == ConfigExists(f)
        existingConfig == ExistingConfig(f)
        variant == AdapterVariant(name)
        out ==
            CASE variant = "claude-desktop" ->
                    Written(variant, serverID, f,
                            ClaudeDocument(configExists, existingConfig, serverID, serverConf))
              [] variant = "windsurf" ->
                    Written(variant, serverID, f,
                            WindsurfDocument(configExists, existingConfig, serverID, serverConf))
              [] variant = "vscode" ->
                    Written(variant, serverID, f,
                            VSCodeDocument(configExists, existingConfig, serverID, serverConf))
              [] OTHER ->
                    IF format = ".json"
                    THEN Written(variant, serverID, f,
                                 GenericDocument(configExists, existingConfig, serverID, serverConf))
                    ELSE IF format \in {".yaml", ".yml"}
                    THEN Outcome("ok", variant, serverID,
                                 NonJSONWritten("yaml", f, serverID, serverConf), TRUE)
                    ELSE IF format = ".toml"
                    THEN Outcome("ok", variant, serverID,
                                 NonJSONWritten("toml", f, serverID, serverConf), TRUE)
                    ELSE Failed(variant, serverID, f, UnsupportedFormatError(format, name))
    IN  \* os.WriteFile on a path that is a directory fails; into a file the
        \* process may not read it writes the bytes and leaves the mode
        IF f = <<"dir">> /\ out.result = "ok"
        THEN Failed(variant, serverID, f, "failed to write config file")
        ELSE IF f = <<"unreadable">> /\ out.result = "ok"
        THEN [out EXCEPT !.file = f]
        ELSE out

-----------------------------------------------------------------------------
(***************************************************************************)
(* RemoveClientServers                                                     *)
(***************************************************************************)
\* the keys removeObsoleteServers deletes from servers
ObsoleteIDs(servers, known) == {id \in DOMAIN servers : id \notin DOMAIN known}

\* removeObsoleteServers: the map after the deletions
RemoveObsoleteServers(servers, known) == Without(servers, ObsoleteIDs(servers, known))

RemoveObsoleteChangedAlways(servers, known) == TRUE

\* removeObsoleteServers: its result, whether any entry was deleted
RemoveObsoleteChanged(servers, known) == ObsoleteIDs(servers, known) # {}

\* the four cases of the switch on clientName inside case ".json"
PruneVariant(name) ==
    IF Contains(name, "claude-desktop") THEN "claude-desktop"
    ELSE IF Contains(name, "windsurf") THEN "windsurf"
    ELSE IF Contains(name, "vscode") \/ Contains(name, "cursor") THEN "vscode"
    ELSE "generic"

\* clientConfig after json.Unmarshal(clientConfigData, &clientConfig)
\* returned no error: a nil map for null
PruneConfig(f) == IF f[2][1] = "null" THEN NilMap ELSE f[2]

FlatWrittenServersOnly(clientConfig, mcpServers) ==
    JObj(Put(EmptyMap, "mcpServers", JObj(mcpServers)))

\* clientConfig["mcpServers"] = mcpServers, then json.MarshalIndent(clientConfig)
FlatWritten(clientConfig, mcpServers) ==
    JObj(Put(clientConfig[2], "mcpServers", JObj(mcpServers)))

\* mcpObj["servers"] = servers; clientConfig["mcp"] = mcpObj, then
\* json.MarshalIndent(clientConfig)
NestedWritten(clientConfig, mcpObj, servers) ==
    JObj(Put(clientConfig[2], "mcp", JObj(Put(mcpObj, "servers", JObj(servers)))))

\* the claude-desktop, windsurf and default cases: the map under mcpServers
PruneFlat(clientConfig, known, f) ==
    IF ~IsMapAt(clientConfig, "mcpServers") THEN Outcome("ok", "", "", f, FALSE)
    ELSE LET mcpServers == MapAt(clientConfig, "mcpServers")
         IN  IF RemoveObsoleteChanged(mcpServers, known)
             THEN Outcome("ok", "", "",
                          <<"json", FlatWritten(clientConfig,
                                                RemoveObsoleteServers(mcpServers, known))>>,
                          TRUE)
             ELSE Outcome("ok", "", "", f, FALSE)

\* the vscode/cursor case: the map under mcp.servers
PruneNested(clientConfig, known, f) ==
    IF ~IsMapAt(clientConfig, "mcp") THEN Outcome("ok", "", "", f, FALSE)
    ELSE LET mcpObj == MapAt(clientConfig, "mcp")
         IN  IF ~IsMapAt(JObj(mcpObj), "servers") THEN Outcome("ok", "", "", f, FALSE)
             ELSE LET servers == MapAt(JObj(mcpObj), "servers")
                  IN  IF RemoveObsoleteChanged(servers, known)
                      THEN Outcome("ok", "", "",
                                   <<"json", NestedWritten(clientConfig, mcpObj,
                                                 RemoveObsoleteServers(servers, known))>>,
                                   TRUE)
                      ELSE Outcome("ok", "", "", f, FALSE)

\* RemoveClientServers(clientName, clientConf) on a file of content f
RemoveClientServers(name, path, known, f) ==
    LET format == Format(path)
        variant == PruneVariant(name)
        out ==
            IF f[1] \in {"absent", "empty"} THEN Outcome("ok", "", "", f, FALSE)
            ELSE IF f[1] \in {"dir", "unreadable"}
            THEN Failed("", "", f, "failed to read client config file")
            ELSE IF format = ".json"
            THEN IF f[1] # "json" \/ f[2][1] \notin {"obj", "null"}
                 THEN Outcome("error", "", "", f, FALSE)
                 ELSE IF variant = "vscode"
                      THEN PruneNested(PruneConfig(f), known, f)
                      ELSE PruneFlat(PruneConfig(f), known, f)
            ELSE IF format \in {".yaml", ".yml", ".toml"}
            THEN Outcome("ok", "", "", f, FALSE)
            ELSE Outcome("error", "", "", f, FALSE)
    IN  [out EXCEPT !.variant = variant]

-----------------------------------------------------------------------------
(***************************************************************************)
(* The inputs the model draws from                                         *)
(***************************************************************************)
RFetch == MCPServer("uvx", <<"mcp-server-fetch">>, "", NoEnv, FALSE, <<>>)
RFetchOff == MCPServer("uvx", <<"mcp-server-fetch">>, "", NoEnv, TRUE, <<>>)
RRemote == MCPServer("", <<>>, "https://a.io/p", NoEnv, FALSE, <<>>)
RFull == MCPServer("npx", <<"-y", "srv">>, "", [k \in {"KEY"} |-> "v"], TRUE, <<"tool">>)
RNpx == MCPServer("npx server-x --flag", <<>>, "", NoEnv, FALSE, <<>>)
RSpace == MCPServer(" npx", <<>>, "", NoEnv, FALSE, <<>>)
RScheme == MCPServer("", <<>>, "https://", NoEnv, FALSE, <<>>)
RPlain == MCPServer("", <<>>, "http://b.io", NoEnv, FALSE, <<"t">>)
RNone == MCPServer("", <<>>, "", NoEnv, FALSE, <<>>)

\* records handed to TranslateAndApply that need not be stored in MCPServers
Records == <<RNpx, RSpace, RScheme, RPlain, RNone>>

\* the canonical inventories (mcp.json)
ServerSets ==
    << [k \in {"A", "C"} |-> IF k = "A" THEN RFetch ELSE RRemote],
       [k \in {"fetch", "fetch2"} |-> IF k = "fetch" THEN RFetch ELSE RFetchOff],
       [k \in {"", "full"} |-> IF k = "" THEN RNpx ELSE RFull],
       EmptyMap >>

\* the clients: identity and configured path
Clients ==
    << <<"claude-desktop", "~/claude_desktop_config.json">>,
       <<"Claude-Desktop", "c.json">>,
       <<"claude-desktop", "claude.yaml">>,
       <<"windsurf", "mcp_config.json">>,
       <<"cursor", "mcp.json">>,
       <<"vscode", "settings.json">>,
       <<"VSCode", "settings.json">>,
       <<"vscode-cursor", "s.JSON">>,
       <<"other", "other.json">>,
       <<"other", "other.yaml">>,
       <<"other", "other.toml">>,
       <<"other", "other.txt">> >>

\* fragments a client file holds before this tool touches it
OldEntry(cmd) == JObj([k \in {"command"} |-> JStr(cmd)])

OldServers(ids) == JObj([id \in ids |-> OldEntry("old-" \o id)])

Doc(keys, servers, mcp) ==
    JObj([k \in keys |->
            CASE k = "foo" -> JStr("bar")
              [] k = "mcpServers" -> servers
              [] k = "mcp" -> mcp])

\* the contents the client's file can have at the start
Files ==
    << <<"absent">>,
       <<"empty">>,
       <<"text", "not json">>,
       <<"json", JNull>>,
       <<"json", JArr(<<JStr("x")>>)>>,
       <<"json", JObj(EmptyMap)>>,
       <<"json", Doc({"foo"}, JNull, JNull)>>,
       <<"json", Doc({"foo", "mcpServers"}, OldServers({"A", "B", "C"}), JNull)>>,
       <<"json", Doc({"foo", "mcpServers"}, JStr("oops"), JNull)>>,
       <<"json", Doc({"foo", "mcp"}, JNull,
                     JObj([k \in {"inputs", "servers", "theme"} |->
                             CASE k = "inputs" -> JArr(<<JStr("in")>>)
                               [] k = "servers" -> OldServers({"A", "B", "C"})
                               [] k = "theme" -> JStr("dark")]))>>,
       <<"json", Doc({"foo", "mcp"}, JNull, JStr("oops"))>>,
       <<"json", Doc({"mcp"}, JNull, JObj([k \in {"servers"} |-> OldServers({"B"})]))>>,
       <<"json", Doc({"foo", "mcpServers", "mcp"}, OldServers({"A"}),
                     JObj([k \in {"servers"} |-> OldServers({"Z"})]))>> >>

-----------------------------------------------------------------------------
(***************************************************************************)
(* The state machine                                                       *)
(***************************************************************************)
NoOrigin == <<"none">>

\* the record of an operation
Op(op, conf, origin, out) ==
    [op |-> op, conf |-> conf, origin |-> origin, id |-> out.id,
     variant |-> out.variant, result |-> out.result, wrote |-> out.wrote,
     err |-> out.err]

NoOp == Op("none", RNone, NoOrigin, Outcome("ok", "", "", <<"absent">>, FALSE))

\* no apply waits at its prompts
NoApply == <<"none">>

\* no use command has loaded config.yaml and not yet come to its end
NoUse == <<"none">>

\* no command has run: the variables of the commands at rest
NoCommand ==
    /\ configClients = EmptyMap
    /\ cfgClients = EmptyMap
    /\ held = NoApply
    /\ fs = EmptyMap
    /\ backupDirAt = "absent"
    /\ backupFiles = EmptyMap
    /\ clock = 0
    /\ running = "idle"
    /\ selected = {}
    /\ toApply = {}
    /\ pending = {}
    /\ current = ""
    /\ todo = {}
    /\ clientSuccess = TRUE
    /\ successCount = 0
    /\ failureCount = 0
    /\ exit = -1
    /\ events = <<>>
    /\ taken = EmptyMap
    /\ runs = 0
    /\ mcpFile = EmptyMap
    /\ clipboard = <<"empty">>

\* no concurrent calls: their variables at rest
NoRace ==
    /\ pc = <<>>
    /\ existingFile = <<>>
    /\ outputData = <<>>
    /\ trace = <<>>

\* no list or use command: the variables of the fan-out at rest
NoFanOut ==
    /\ registries = <<>>
    /\ mode = ""
    /\ next = 0
    /\ mainPc = "done"
    /\ worker = <<>>
    /\ fetchResult = <<>>
    /\ mu = 0
    /\ wg = 0
    /\ registryResults = EmptyMap
    /\ collected = EmptyMap

\* config.yaml is not looked at
NoConfig ==
    /\ configFile = <<"absent">>
    /\ saved = <<>>
    /\ loaded = <<>>
    /\ confOp = <<>>
    /\ removed = {}
    /\ using = NoUse
    /\ confSteps = 0

\* the cache is not looked at
NoCache ==
    /\ cacheFiles = EmptyMap
    /\ now = 0
    /\ cacheOp = <<>>
    /\ written = EmptyMap
    /\ cacheSteps = 0
    /\ inFlight = <<>>

\* no fetch is running
NoPaging ==
    /\ fetcher = ""
    /\ registryURL = ""
    /\ pages = EmptyMap
    /\ cursor = ""
    /\ hasNextPage = FALSE
    /\ pagePc = "done"
    /\ requested = {}
    /\ repeated = FALSE

Init ==
    /\ \E c \in DOMAIN Clients :
           /\ clientName = Clients[c][1]
           /\ configPath = Clients[c][2]
    /\ \E s \in DOMAIN ServerSets : MCPServers = ServerSets[s]
    /\ \E f \in DOMAIN Files : file = Files[f]
    /\ prev = file
    /\ last = NoOp
    /\ before = NoOp
    /\ steps = 0
    /\ NoCommand
    /\ NoRace
    /\ NoFanOut
    /\ NoConfig
    /\ NoCache
    /\ NoPaging

\* one call of TranslateAndApply with serverConf
Apply(serverConf, origin) ==
    /\ steps < MaxOps
    /\ \E found \in LookupIDs(MCPServers, serverConf) :
           LET out == TranslateAndApply(clientName, configPath, found, serverConf, file)
           IN  /\ file' = out.file
               /\ last' = Op("apply", serverConf, origin, out)
    /\ prev' = file
    /\ before' = last
    /\ steps' = steps + 1
    /\ UNCHANGED <<clientName, configPath, MCPServers>>
    /\ UNCHANGED <<cmdVars, restVars>>

\* apply: TranslateAndApply with the record stored under a key of mcp.json
\* (the loop of cmd/apply.go, the selected server of cmd/reload.go)
ApplyStored == \E k \in DOMAIN MCPServers : Apply(MCPServers[k], <<"key", k>>)

\* apply with a record that is given without its key
ApplyRecord == \E r \in DOMAIN Records : Apply(Records[r], NoOrigin)

\* prune: one call of RemoveClientServers
Prune ==
    /\ steps < MaxOps
    /\ LET out == RemoveClientServers(clientName, configPath, MCPServers, file)
       IN  /\ file' = out.file
           /\ last' = Op("prune", RNone, NoOrigin, out)
    /\ prev' = file
    /\ before' = last
    /\ steps' = steps + 1
    /\ UNCHANGED <<clientName, configPath, MCPServers>>
    /\ UNCHANGED <<cmdVars, restVars>>

Next == ApplyStored \/ ApplyRecord \/ Prune

Spec == Init /\ [][Next]_vars

-----------------------------------------------------------------------------
(***************************************************************************)
(* BackupClientConfig and the restore of cmd/restore.go                    *)
(***************************************************************************)
\* cfg.Backups.Path
BackupsPath == "~/backups"

\* backupDir, err := util.ExpandPath(t.AppConfig.Backups.Path)
backupDir == ExpandPath(BackupsPath)

Digits == "0123456789"

\* time.Now().Format("20060102-150405") at second t of the minute the
\* commands run in
Timestamp(t) ==
    "20250101-1200" \o CharAt(Digits, (t \div 10) + 1) \o CharAt(Digits, (t % 10) + 1)

\* fmt.Sprintf("%s-%s%s", clientName, timestamp, filepath.Ext(clientConfigPath))
BackupFileName(name, path, t) == name \o "-" \o Timestamp(t) \o Ext(ExpandPath(path))

SourceMissingNever(content) == FALSE

\* os.Stat(clientConfigPath) returns an error for which os.IsNotExist holds
SourceMissing(content) == content = <<"absent">>

\* what BackupClientConfig returns (the path and the error, "" when nil),
\* the files of the backup directory afterwards and what is at the backup
\* path afterwards
BackupResult(path, err, backups, dir) ==
    [path |-> path, err |-> err, backups |-> backups, dir |-> dir]

\* the errors BackupClientConfig returns before it looks at the client's
\* file
ExpandBackupError == "failed to expand backup path"
ExpandClientError == "failed to expand client config path"
MkdirError == "failed to create backup directory"

\* BackupClientConfig(clientName, clientConf) at second t: content is what
\* is at the client's path, backups the files of the backup directory,
\* dirAt what is at the backup path, home whether os.UserHomeDir()
\* succeeds.  The two paths are expanded and the backup directory is made
\* (os.MkdirAll fails on a regular file) before os.Stat looks at the
\* client's path; a directory there is refused, and os.Open fails on a
\* file the process may write but not read.
BackupClientConfig(name, path, content, backups, dirAt, t, home) ==
    IF ~home /\ HasPrefix(BackupsPath, "~")
    THEN BackupResult("", ExpandBackupError, backups, dirAt)
    ELSE IF ~home /\ HasPrefix(path, "~")
    THEN BackupResult("", ExpandClientError, backups, dirAt)
    ELSE IF dirAt = "file"
    THEN BackupResult("", MkdirError, backups, dirAt)
    ELSE IF SourceMissing(content) THEN BackupResult("", "", backups, "dir")
    ELSE IF content = <<"dir">>
    THEN BackupResult("", "source config path is a directory, not a file", backups, "dir")
    ELSE IF content = <<"unreadable">>
    THEN BackupResult("", "failed to open source config file", backups, "dir")
    ELSE BackupResult(Join(backupDir, BackupFileName(name, path, t)),
                      "",
                      Put(backups, BackupFileName(name, path, t), content),
                      "dir")

\* the three results of a backup: an error, the no-op signal, a backup file
BackupSignal(b) == IF b.err # "" THEN "error" ELSE IF b.path = "" THEN "noop" ELSE "ok"

\* parts := strings.SplitN(fileName, "-", 2); len(parts) >= 2
HasClientPart(fileName) == IndexChar(fileName, "-") # 0

\* clientBackups[name]: the file names whose parts[0] is name
ClientBackups(backups, name) ==
    {fileName \in DOMAIN backups :
        HasClientPart(fileName) /\ SplitFirst(fileName, "-") = name}

\* sort.Sort(sort.Reverse(sort.StringSlice(backups))); backups[0]
LatestBackup(names) == CHOOSE x \in names : \A y \in names \ {x} : StrLess(y, x)

\* the iteration of the restore loop for a client: skipped when it has no
\* backups, an error when copyFile fails (os.Create on a directory, or on
\* a file the process may not read)
RestoreOutcome(backups, name, content) ==
    IF ClientBackups(backups, name) = {} THEN "skipped"
    ELSE IF content \in {<<"dir">>, <<"unreadable">>} THEN "error"
    ELSE "ok"

\* the content of the client's file after that iteration
RestoredContent(backups, name, content) ==
    IF RestoreOutcome(backups, name, content) = "ok"
    THEN backups[LatestBackup(ClientBackups(backups, name))]
    ELSE content

-----------------------------------------------------------------------------
(***************************************************************************)
(* The commands apply, reload and restore                                  *)
(***************************************************************************)
\* config.yaml: the clients of a configuration; the fourth has none, the
\* two clients of the fifth have one file
Configs ==
    << [c \in {"claude-desktop", "other"} |->
            IF c = "other" THEN "other.txt" ELSE "claude.json"],
       [c \in {"vscode", "vscode-insiders"} |->
            IF c = "vscode" THEN "settings.json" ELSE "insiders.json"],
       [c \in {"cursor", "other"} |->
            IF c = "other" THEN "other.yaml" ELSE "mcp.json"],
       EmptyMap,
       [c \in {"cursor", "cursor2"} |-> "mcp.json"] >>

\* clientPaths of DetectMCPClients where runtime.GOOS is "linux":
\* filepath.Join(client.ConfigDir, client.ConfigFile) per client
ClientPaths ==
    [n \in {"vscode", "vscode-insiders", "cursor", "claude-desktop", "windsurf"} |->
        CASE n = "vscode" ->
                 Join(Join(HomeDir, ".config/Code/User"), "settings.json")
          [] n = "vscode-insiders" ->
                 Join(Join(HomeDir, ".config/Code - Insiders/User"), "settings.json")
          [] n = "cursor" ->
                 Join(Join(HomeDir, ".cursor"), "settings.json")
          [] n = "claude-desktop" ->
                 Join(Join(HomeDir, ".config/Claude"), "claude_desktop_config.json")
          [] n = "windsurf" ->
                 Join(Join(HomeDir, ".codeium/windsurf"), "mcp_config.json")]

\* checkDirs of DetectMCPClients
CheckDirs ==
    [n \in {"claude-desktop", "windsurf"} |->
        IF n = "claude-desktop"
        THEN Join(HomeDir, "Library/Application Support/Claude")
        ELSE Join(HomeDir, ".codeium/windsurf")]

\* the ConfigPath of a client found by its directory: the directory joined
\* with the default config file
DirConfigPaths ==
    [n \in DOMAIN CheckDirs |->
        Join(CheckDirs[n], IF n = "claude-desktop" THEN "claude_desktop_config.json"
                           ELSE "mcp_config.json")]

\* os.Stat(p) returns no error: a file or a directory is at p
StatOK(files, p) == p \in DOMAIN files /\ files[p] # <<"absent">>

\* util.DetectMCPClients(): a client is detected by its config file, and
\* claude-desktop and windsurf also by their directory
DetectMCPClients(files) ==
    [n \in {m \in DOMAIN ClientPaths :
                \/ StatOK(files, ClientPaths[m])
                \/ m \in DOMAIN CheckDirs /\ StatOK(files, CheckDirs[m])} |->
        IF StatOK(files, ClientPaths[n]) THEN ClientPaths[n] ELSE DirConfigPaths[n]]

\* what is at the clients' paths when the first command starts, for a
\* configuration (by its index in Configs): <<"dir">> is a directory,
\* <<"unreadable">> a file the process may write but not read
Scenario(config, first, second) ==
    [config |-> config,
     backupDir |-> "absent",
     files |-> [p \in {Configs[config][c] : c \in DOMAIN Configs[config]} |->
                   IF p \in {"claude.json", "settings.json", "mcp.json"}
                   THEN first ELSE second]]

\* the home directory of a user whose config.yaml has no clients: the
\* directories of windsurf and of claude-desktop, and what is at the paths
\* of their config files
Installed(dirs, windsurfFile, claudeFile) ==
    [config |-> 4,
     backupDir |-> "absent",
     files |-> [p \in {CheckDirs[n] : n \in DOMAIN CheckDirs}
                      \cup {ClientPaths["windsurf"], DirConfigPaths["claude-desktop"]} |->
                   IF p = ClientPaths["windsurf"] THEN windsurfFile
                   ELSE IF p = DirConfigPaths["claude-desktop"] THEN claudeFile
                   ELSE dirs]]

\* the scenario with a regular file at the backup path
Blocked(scenario) == [scenario EXCEPT !.backupDir = "file"]

Scenarios ==
    << Scenario(1, <<"json", Doc({"foo"}, JNull, JNull)>>, <<"absent">>),
       Scenario(1, <<"json", JNull>>, <<"text", "not json">>),
       Scenario(1, <<"absent">>, <<"unreadable">>),
       Scenario(2, <<"json", Doc({"foo"}, JNull, JNull)>>, <<"json", JObj(EmptyMap)>>),
       Scenario(2, <<"dir">>, <<"json", Doc({"foo"}, JNull, JNull)>>),
       Scenario(2, <<"unreadable">>, <<"absent">>),
       Scenario(3, <<"json", Doc({"foo"}, JNull, JNull)>>, <<"text", "a: b">>),
       Scenario(3, <<"absent">>, <<"dir">>),
       Installed(<<"dir">>, <<"json", Doc({"foo"}, JNull, JNull)>>, <<"absent">>),
       Installed(<<"absent">>, <<"absent">>, <<"absent">>),
       Scenario(3, <<"json", Doc({"foo"}, JNull, JNull)>>, <<"absent">>),
       Scenario(5, <<"json", Doc({"foo"}, JNull, JNull)>>, <<"absent">>),
       Blocked(Scenario(1, <<"json", Doc({"foo"}, JNull, JNull)>>, <<"absent">>)) >>

\* an mcp.json with one server
OneServer == [k \in {"A"} |-> RFetch]

\* the mcp.json files a scenario is run with: the one whose records differ
\* in their fields; for the first scenario also the one with two records
\* of equal fields, for the eleventh the one without servers, and the one
\* with one server where both clients have a file that apply can write
ScenarioServers(i) ==
    IF i = 1 THEN {ServerSets[1], ServerSets[2]}
    ELSE IF i = 11 THEN {EmptyMap}
    ELSE IF i \in {4, 7, 12} THEN {OneServer}
    ELSE {ServerSets[1]}

\* what the clipboard holds when load runs: nothing, or a JSON document
\* whose mcpServers are the given ones
Clipboards == << <<"empty">>, <<"servers", [k \in {"X"} |-> RPlain]>> >>

\* the clipboards a scenario is run with
ScenarioClipboards(i) == IF i = 3 THEN {Clipboards[2]} ELSE {Clipboards[1]}

NoBackup == <<"none">>

CmdInit ==
    /\ clientName = ""
    /\ configPath = ""
    /\ file = <<"absent">>
    /\ prev = <<"absent">>
    /\ last = NoOp
    /\ before = NoOp
    /\ steps = 0
    /\ \E i \in DOMAIN Scenarios :
           /\ mcpFile \in ScenarioServers(i)
           /\ clipboard \in ScenarioClipboards(i)
           /\ configClients = Configs[Scenarios[i].config]
           /\ fs = Scenarios[i].files
           /\ backupDirAt = Scenarios[i].backupDir
           /\ taken = [n \in (DOMAIN Configs[Scenarios[i].config])
                              \cup (DOMAIN DetectMCPClients(Scenarios[i].files)) |->
                           NoBackup]
    /\ cfgClients = configClients
    /\ held = NoApply
    /\ backupFiles = EmptyMap
    /\ clock = 0
    /\ running = "idle"
    /\ selected = {}
    /\ toApply = {}
    /\ pending = {}
    /\ current = ""
    /\ todo = {}
    /\ clientSuccess = TRUE
    /\ successCount = 0
    /\ failureCount = 0
    /\ exit = -1
    /\ events = <<>>
    /\ runs = 0
    /\ MCPServers = mcpFile
    /\ NoRace
    /\ NoFanOut
    /\ NoConfig
    /\ NoCache
    /\ NoPaging

\* the state of a command at the start of its loop over the clients sel
\* of clients: the translator holds servers, mcp.json as
\* config.LoadMCPConfig() read it
Begin(name, clients, servers, sel, keys) ==
    /\ runs < MaxRuns
    /\ MCPServers' = servers
    /\ running = "idle"
    /\ running' = name
    /\ cfgClients' = clients
    /\ selected' = sel
    /\ pending' = sel
    /\ toApply' = keys
    /\ current' = ""
    /\ todo' = {}
    /\ clientSuccess' = TRUE
    /\ successCount' = 0
    /\ failureCount' = 0
    /\ exit' = -1
    /\ events' = << <<"start", name, "">> >>
    /\ runs' = runs + 1
    /\ UNCHANGED <<transVars, restVars, configClients, fs, backupDirAt,
                   backupFiles, clock, taken, mcpFile, clipboard>>

\* the command ends before its loop over the clients: log.Fatal (status 1)
\* or return (status 0); nothing is backed up or written
Ends(name, status) ==
    /\ runs < MaxRuns
    /\ running = "idle"
    /\ cfgClients' = configClients
    /\ selected' = {}
    /\ pending' = {}
    /\ toApply' = {}
    /\ current' = ""
    /\ todo' = {}
    /\ clientSuccess' = TRUE
    /\ successCount' = 0
    /\ failureCount' = 0
    /\ exit' = status
    /\ events' = << <<"start", name, "">> >>
    /\ runs' = runs + 1
    /\ UNCHANGED <<transVars, restVars, MCPServers, configClients, fs, backupDirAt,
                   backupFiles, clock, running, taken, mcpFile, clipboard>>

\* apply, up to its prompts.  fatal: config.LoadConfig or
\* config.LoadMCPConfig returns an error (log.Fatal, as for an mcp.json
\* without servers).  With no clients in config.yaml the detected ones are
\* used, and the command returns when there are none.  Otherwise the
\* command waits for the user with what it has read, and other commands
\* may run before the user answers (one apply waits at a time).
ReadApply ==
    /\ held = NoApply
    /\ \E fatal \in BOOLEAN :
           \E clients \in {IF DOMAIN configClients = {} THEN DetectMCPClients(fs)
                           ELSE configClients} :
               IF fatal \/ DOMAIN mcpFile = {} THEN Ends("apply", 1) /\ UNCHANGED held
               ELSE IF DOMAIN clients = {} THEN Ends("apply", 0) /\ UNCHANGED held
               ELSE /\ runs < MaxRuns
                    /\ running = "idle"
                    /\ held' = <<"read", clients, mcpFile>>
                    /\ UNCHANGED <<transVars, restVars, MCPServers, configClients,
                                   cfgClients, fs, backupDirAt, backupFiles, clock,
                                   running, selected, toApply, pending, current, todo,
                                   clientSuccess, successCount, failureCount, exit,
                                   events, taken, runs, mcpFile, clipboard>>

\* apply, from its prompts on.  The user selects clients (survey.Required:
\* at least one, "ALL" being all of them) and confirms or declines; fatal:
\* a prompt returns an error (log.Fatal).  The loop over the clients starts
\* with the clients and the mcp.json the command read before the prompts.
PromptApply ==
    /\ held # NoApply
    /\ held' = NoApply
    /\ \E fatal \in BOOLEAN, confirm \in BOOLEAN :
           IF fatal THEN Ends("apply", 1)
           ELSE \E sel \in (SUBSET DOMAIN held[2]) \ {{}} :
                    IF confirm
                    THEN Begin("apply", held[2], held[3], sel, DOMAIN held[3])
                    ELSE Ends("apply", 0)

\* an identifier that is no key of mcp.json
UnknownID == "gone"

\* reload.  fatal: config.LoadConfig or config.LoadMCPConfig returns an
\* error; log.Fatal also when cfg.SelectedMCP is empty or no key of
\* mcp.json.  With no clients in config.yaml the command returns; otherwise
\* it processes all of them.
StartReload ==
    /\ UNCHANGED held
    /\ \E fatal \in BOOLEAN, SelectedMCP \in (DOMAIN mcpFile) \cup {"", UnknownID} :
           IF fatal \/ SelectedMCP = "" \/ SelectedMCP \notin DOMAIN mcpFile
           THEN Ends("reload", 1)
           ELSE IF DOMAIN configClients = {} THEN Ends("reload", 0)
           ELSE Begin("reload", configClients, mcpFile, DOMAIN configClients,
                      {SelectedMCP})

\* if err != nil { failureCount++; continue }
SkipsClient(b) == b.err # ""

\* the head of an iteration of the loop over the clients: the backup, of
\* which the command keeps the signal and the error.  The home directory
\* resolves: config.LoadConfig() of this process has found it.
ProcessClient ==
    /\ running \in {"apply", "reload"}
    /\ current = ""
    /\ \E c \in pending :
           LET b == BackupClientConfig(c, cfgClients[c], fs[cfgClients[c]],
                                       backupFiles, backupDirAt, clock, TRUE)
           IN  /\ backupDirAt' = b.dir
               /\ backupFiles' = b.backups
               /\ taken' = IF BackupSignal(b) = "ok"
                           THEN [taken EXCEPT ![c] = fs[cfgClients[c]]]
                           ELSE taken
               /\ events' = Append(events, <<"backup", c, BackupSignal(b), b.err>>)
               /\ pending' = pending \ {c}
               /\ IF SkipsClient(b)
                  THEN /\ failureCount' = failureCount + 1
                       /\ UNCHANGED <<current, todo, clientSuccess>>
                  ELSE /\ current' = c
                       /\ todo' = toApply
                       /\ clientSuccess' = TRUE
                       /\ UNCHANGED failureCount
    /\ UNCHANGED <<transVars, restVars, MCPServers, configClients, cfgClients, held, fs, clock,
                   running, selected,
                   toApply, successCount, exit, runs, mcpFile, clipboard>>

\* one TranslateAndApply of the iteration; after the last one the client is
\* counted.  A panic ends the process with status 2.
ApplyServer ==
    /\ running \in {"apply", "reload"}
    /\ current # ""
    /\ \E k \in todo : \E found \in LookupIDs(MCPServers, MCPServers[k]) :
           LET p == cfgClients[current]
               out == TranslateAndApply(current, p, found, MCPServers[k], fs[p])
               ok == clientSuccess /\ out.result = "ok"
           IN  /\ fs' = [fs EXCEPT ![p] = out.file]
               /\ events' = Append(events, <<"apply", current, out.result>>)
               /\ IF out.result = "panic"
                  THEN /\ running' = "idle"
                       /\ exit' = 2
                       /\ UNCHANGED <<current, todo, clientSuccess, successCount,
                                      failureCount>>
                  ELSE /\ todo' = todo \ {k}
                       /\ clientSuccess' = ok
                       /\ current' = IF todo = {k} THEN "" ELSE current
                       /\ successCount' =
                              IF todo = {k} /\ ok THEN successCount + 1 ELSE successCount
                       /\ failureCount' =
                              IF todo = {k} /\ ~ok THEN failureCount + 1 ELSE failureCount
                       /\ UNCHANGED <<running, exit>>
    /\ UNCHANGED <<transVars, restVars, MCPServers, configClients, cfgClients, held,
                   backupDirAt, backupFiles,
                   clock, selected, toApply, pending, taken, runs, mcpFile, clipboard>>

\* the end of apply and reload: os.Exit(1) if any client failed
Finish ==
    /\ running \in {"apply", "reload"}
    /\ current = ""
    /\ pending = {}
    /\ running' = "idle"
    /\ exit' = IF failureCount > 0 THEN 1 ELSE 0
    /\ UNCHANGED <<transVars, restVars, MCPServers, configClients, cfgClients, held, fs,
                   backupDirAt,
                   backupFiles, clock, selected, toApply, pending, current, todo,
                   clientSuccess, successCount, failureCount, events, taken, runs, mcpFile, clipboard>>

\* the clients of config.yaml whose file is at path p and whose iteration
\* of the restore loop copies a backup over it
Restorers(p) ==
    {c \in DOMAIN configClients :
        configClients[c] = p /\ RestoreOutcome(backupFiles, c, fs[p]) = "ok"}

\* restore: every client of config.yaml gets its latest backup (with no
\* clients the command returns).  fatal: config.LoadConfig fails or the
\* backup path does not expand; os.ReadDir fails on a regular file at the
\* backup path (log.Fatal: status 1, nothing is restored).  The loop
\* ranges over the map cfg.Clients in an order of Go's choosing: of
\* clients that have one file, lastAt is the one whose backup is copied
\* last.
Restore ==
    /\ runs < MaxRuns
    /\ running = "idle"
    /\ \E fatal \in BOOLEAN :
           IF fatal \/ (DOMAIN configClients # {} /\ backupDirAt = "file")
           THEN /\ exit' = 1
                /\ successCount' = 0
                /\ failureCount' = 0
                /\ UNCHANGED fs
           ELSE /\ \E lastAt \in [DOMAIN fs -> (DOMAIN configClients) \cup {""}] :
                       /\ \A p \in DOMAIN fs :
                              lastAt[p] \in (IF Restorers(p) = {} THEN {""}
                                             ELSE Restorers(p))
                       /\ fs' = [p \in DOMAIN fs |->
                                    IF lastAt[p] = "" THEN fs[p]
                                    ELSE RestoredContent(backupFiles, lastAt[p], fs[p])]
                /\ successCount' =
                       Cardinality({c \in DOMAIN configClients :
                           RestoreOutcome(backupFiles, c, fs[configClients[c]]) = "ok"})
                /\ failureCount' =
                       Cardinality({c \in DOMAIN configClients :
                           RestoreOutcome(backupFiles, c, fs[configClients[c]]) = "error"})
                /\ exit' = IF failureCount' > 0 THEN 1 ELSE 0
    /\ events' = << <<"start", "restore", "">> >>
    /\ cfgClients' = configClients
    /\ selected' = DOMAIN configClients
    /\ pending' = {}
    /\ toApply' = {}
    /\ current' = ""
    /\ todo' = {}
    /\ runs' = runs + 1
    /\ UNCHANGED <<transVars, restVars, MCPServers, configClients, held, backupDirAt,
                   backupFiles, clock, running, clientSuccess, taken,
                   mcpFile, clipboard>>

\* a second passes, between two commands or during one: every
\* BackupClientConfig reads time.Now()
Tick ==
    /\ clock < MaxClock
    /\ clock' = clock + 1
    /\ UNCHANGED <<transVars, restVars, MCPServers, configClients, cfgClients, held, fs,
                   backupDirAt,
                   backupFiles, running, selected, toApply, pending, current, todo,
                   clientSuccess, successCount, failureCount, exit, events, taken,
                   runs, mcpFile, clipboard>>

\* the servers of mcp.json after those of the clipboard are merged in:
\* existingConfig.MCPServers[name] = server
Merged(existing, new) ==
    [k \in (DOMAIN existing) \cup (DOMAIN new) |->
        IF k \in DOMAIN new THEN new[k] ELSE existing[k]]

\* load, between two commands or while an apply waits at its prompts.
\* read: getClipboard returns the clipboard; loadable: config.LoadMCPConfig
\* returns mcp.json, and when it does not the servers of the clipboard are
\* merged into an empty config; saves: config.SaveMCPConfig writes the
\* merged config to mcp.json, which then holds these servers only.  A
\* clipboard that cannot be read or is empty, and a save that fails, end
\* the command with log.Fatal (status 1) and mcp.json as it was.  A command
\* in its loop keeps the mcp.json it has read, so a load during the loop
\* comes to a load after it.
LoadCmd ==
    /\ runs < MaxRuns
    /\ running = "idle"
    /\ \E read \in BOOLEAN, loadable \in BOOLEAN, saves \in BOOLEAN :
           \E fatal \in {~read \/ clipboard[1] = "empty" \/ ~saves} :
               /\ mcpFile' = IF fatal THEN mcpFile
                             ELSE Merged(IF loadable THEN mcpFile ELSE EmptyMap,
                                         clipboard[2])
               /\ exit' = IF fatal THEN 1 ELSE 0
    /\ cfgClients' = configClients
    /\ selected' = {}
    /\ pending' = {}
    /\ toApply' = {}
    /\ current' = ""
    /\ todo' = {}
    /\ clientSuccess' = TRUE
    /\ successCount' = 0
    /\ failureCount' = 0
    /\ events' = << <<"start", "load", "">> >>
    /\ runs' = runs + 1
    /\ UNCHANGED <<transVars, restVars, MCPServers, configClients, held, fs,
                   backupDirAt, backupFiles, clock, running, taken, clipboard>>

CmdNext ==
    \/ ReadApply \/ PromptApply \/ StartReload \/ ProcessClient \/ ApplyServer
    \/ Finish \/ Restore \/ Tick \/ LoadCmd

CmdSpec == CmdInit /\ [][CmdNext]_vars

-----------------------------------------------------------------------------
(***************************************************************************)
(* Vocabulary of the properties                                            *)
(***************************************************************************)
\* the file holds a JSON document that is a mapping
IsMapping(f) == f[1] = "json" /\ f[2][1] = "obj"

\* the top-level mapping of such a file
Top(f) == f[2][2]

\* apply used a JSON-based adapter: a named variant, or the fallback on .json
JsonBased(op) ==
    \/ op.variant \in {"claude-desktop", "windsurf", "vscode"}
    \/ op.variant = "generic" /\ Format(configPath) = ".json"

\* the server map at the path of a variant (mcp.servers for vscode,
\* mcpServers otherwise); the empty map when there is none
ServerMap(variant, f) ==
    IF ~IsMapping(f) THEN EmptyMap
    ELSE IF variant = "vscode"
         THEN IF IsMapAt(f[2], "mcp") /\ IsMapAt(JObj(MapAt(f[2], "mcp")), "servers")
              THEN MapAt(JObj(MapAt(f[2], "mcp")), "servers")
              ELSE EmptyMap
         ELSE IF IsMapAt(f[2], "mcpServers") THEN MapAt(f[2], "mcpServers")
              ELSE EmptyMap

\* g has the keys of f except those in gone, with the values they have in f
SameExcept(f, g, gone) ==
    /\ DOMAIN g = (DOMAIN f) \ gone
    /\ \A k \in DOMAIN g : g[k] = f[k]

-----------------------------------------------------------------------------
\* C1: after a successful apply through a JSON-based adapter to a file that
\* held a JSON mapping, every top-level key other than the adapter's own
\* (mcpServers; mcp for vscode) is still there with the value it had, and
\* for vscode so is every key of a mapping mcp other than servers.
C1_NonDestructiveMerge ==
    (last.op = "apply" /\ last.result = "ok" /\ JsonBased(last) /\ IsMapping(prev)) =>
        /\ IsMapping(file)
        /\ \A k \in (DOMAIN Top(prev))
                      \ (IF last.variant = "vscode" THEN {"mcp"} ELSE {"mcpServers"}) :
               k \in DOMAIN Top(file) /\ Top(file)[k] = Top(prev)[k]
        /\ (last.variant = "vscode" /\ IsMapAt(prev[2], "mcp")) =>
               /\ IsMapAt(file[2], "mcp")
               /\ \A k \in (DOMAIN MapAt(prev[2], "mcp")) \ {"servers"} :
                      /\ k \in DOMAIN MapAt(file[2], "mcp")
                      /\ MapAt(file[2], "mcp")[k] = MapAt(prev[2], "mcp")[k]

\* a vscode apply merged into a document with foo and with mcp.theme
C1_Witness ==
    /\ last.op = "apply" /\ last.result = "ok" /\ last.variant = "vscode"
    /\ IsMapping(prev) /\ "foo" \in DOMAIN Top(prev)
    /\ IsMapAt(prev[2], "mcp") /\ "theme" \in DOMAIN MapAt(prev[2], "mcp")
    /\ file # prev
    /\ Top(file)["foo"] = JStr("bar")

\* C2: two applies in a row with the same record (the ServerSet never
\* changes) leave the file after the second as it was after the first.
C2_ApplyIdempotent ==
    (last.op = "apply" /\ before.op = "apply" /\ last.conf = before.conf) =>
        file = prev

\* C3: on a .json file that holds a mapping, prune leaves in the server map
\* that apply writes for this client identity exactly the identifiers it
\* held that are identifiers of the ServerSet.
C3_PruneCorrect ==
    (last.op = "prune" /\ Format(configPath) = ".json" /\ IsMapping(prev)) =>
        DOMAIN ServerMap(AdapterVariant(clientName), file)
            = (DOMAIN ServerMap(AdapterVariant(clientName), prev)) \cap (DOMAIN MCPServers)

\* C4: prune writes nothing when every identifier of the server map it
\* works on is in the ServerSet, so nothing on a second prune in a row; when
\* it writes, an identifier has been deleted.
C4_PruneIdempotent ==
    last.op = "prune" =>
        /\ (DOMAIN ServerMap(last.variant, prev) \subseteq DOMAIN MCPServers) =>
               (~last.wrote /\ file = prev)
        /\ before.op = "prune" => (~last.wrote /\ file = prev)
        /\ last.wrote =>
               (DOMAIN ServerMap(last.variant, prev))
                   \ (DOMAIN ServerMap(last.variant, file)) # {}

\* a second prune in a row, after a first one that deleted and left entries
C4_Witness ==
    /\ last.op = "prune" /\ before.op = "prune"
    /\ before.wrote /\ ~last.wrote
    /\ DOMAIN ServerMap(last.variant, file) # {}

\* C5: prune only deletes identifiers of the server map it works on: no
\* identifier is added, the surviving ones keep their fragments, and every
\* other key of the document keeps its value.
C5_PruneOnlyDeletes ==
    (last.op = "prune" /\ file # prev) =>
        /\ IsMapping(prev) /\ IsMapping(file)
        /\ DOMAIN ServerMap(last.variant, file) \subseteq DOMAIN ServerMap(last.variant, prev)
        /\ \A id \in DOMAIN ServerMap(last.variant, file) :
               ServerMap(last.variant, file)[id] = ServerMap(last.variant, prev)[id]
        /\ IF last.variant = "vscode"
           THEN /\ SameExcept(Top(prev), Without(Top(file), {"mcp"}), {"mcp"})
                /\ IsMapAt(prev[2], "mcp") /\ IsMapAt(file[2], "mcp")
                /\ SameExcept(MapAt(prev[2], "mcp"),
                              Without(MapAt(file[2], "mcp"), {"servers"}), {"servers"})
                /\ "servers" \in DOMAIN MapAt(file[2], "mcp")
           ELSE /\ SameExcept(Top(prev), Without(Top(file), {"mcpServers"}), {"mcpServers"})
                /\ "mcpServers" \in DOMAIN Top(file)

\* a prune deleted B from {A, B, C} in a document that has other keys
C5_Witness ==
    /\ last.op = "prune" /\ last.wrote
    /\ DOMAIN ServerMap(last.variant, prev) = {"A", "B", "C"}
    /\ DOMAIN ServerMap(last.variant, file) = {"A", "C"}
    /\ "foo" \in DOMAIN Top(file)

-----------------------------------------------------------------------------
\* the fields of a fragment
AllFields == {"command", "args", "url", "env", "disabled", "autoApprove"}

\* field k of the record is set (non-empty, non-default)
IsSet(serverConf, k) ==
    CASE k = "command"     -> serverConf.Command # ""
      [] k = "args"        -> Len(serverConf.Args) > 0
      [] k = "url"         -> serverConf.URL # ""
      [] k = "env"         -> DOMAIN serverConf.Env # {}
      [] k = "disabled"    -> serverConf.Disabled
      [] k = "autoApprove" -> Len(serverConf.AutoApprove) > 0

\* the keys of the fragment the last apply wrote
WrittenFields == DOMAIN ServerMap(last.variant, file)[last.id][2]

\* the two exceptions of the claim
AlwaysWritten(variant, k) ==
    \/ k = "env" /\ variant = "vscode"
    \/ k = "autoApprove" /\ variant \in {"claude-desktop", "generic"}

\* the fields of a variant's fragment (section 6 of the specification)
SchemaFields(variant) ==
    IF variant \in {"claude-desktop", "generic"} THEN AllFields
    ELSE {"command", "args", "url", "env"}

\* C6 as stated: the fragment written by apply has a field exactly when the
\* record's field is set, except env (vscode) and autoApprove
\* (claude-desktop, generic JSON), which are always there.
C6_FieldOmission ==
    (last.op = "apply" /\ last.result = "ok" /\ JsonBased(last)) =>
        \A k \in AllFields :
            k \in WrittenFields <=> (IsSet(last.conf, k) \/ AlwaysWritten(last.variant, k))

\* C6 as amended: the same for the fields of the variant's schema; disabled
\* and autoApprove are never written for windsurf/cursor and vscode.
C6_FieldOmissionPerSchema ==
    (last.op = "apply" /\ last.result = "ok" /\ JsonBased(last)) =>
        \A k \in AllFields :
            k \in WrittenFields <=>
                /\ k \in SchemaFields(last.variant)
                /\ IsSet(last.conf, k) \/ AlwaysWritten(last.variant, k)

\* a vscode apply of a disabled record without env: env is written,
\* disabled is not, command is, url is not
C6_Witness ==
    /\ last.op = "apply" /\ last.result = "ok" /\ last.variant = "vscode"
    /\ last.conf.Disabled /\ DOMAIN last.conf.Env = {}
    /\ "env" \in WrittenFields /\ "disabled" \notin WrittenFields
    /\ "command" \in WrittenFields /\ "url" \notin WrittenFields

\* C7: applying the record stored under key k of the ServerSet writes the
\* fragment under identifier k.
C7_StoredIdentifier ==
    (last.op = "apply" /\ last.result = "ok" /\ last.origin[1] = "key") =>
        last.id = last.origin[2]

\* C8: the identifier under which apply writes is never the empty string.
C8_IdentifierNonEmpty ==
    (last.op = "apply" /\ last.result = "ok") => last.id # ""

\* no entry of the ServerSet equals the record on command, url, args and env
NoEntryMatches(serverConf) ==
    \A id \in DOMAIN MCPServers :
        ~ /\ MCPServers[id].Command = serverConf.Command
          /\ MCPServers[id].URL = serverConf.URL
          /\ MCPServers[id].Args = serverConf.Args
          /\ MCPServers[id].Env = serverConf.Env

Whitespace == {" ", "\t", "\n", "\r"}

RECURSIVE SkipSpace(_)
SkipSpace(s) ==
    IF s # "" /\ CharAt(s, 1) \in Whitespace THEN SkipSpace(SubSeq(s, 2, Len(s))) ELSE s

RECURSIVE UpToSpace(_)
UpToSpace(s) ==
    IF s = "" \/ CharAt(s, 1) \in Whitespace THEN ""
    ELSE CharAt(s, 1) \o UpToSpace(SubSeq(s, 2, Len(s)))

\* the first whitespace-delimited token of s
FirstToken(s) == UpToSpace(SkipSpace(s))

\* s after its scheme, scheme:// , if it has one
RECURSIVE AfterScheme(_, _)
AfterScheme(s, i) ==
    IF i + 2 > Len(s) THEN s
    ELSE IF SubSeq(s, i, i + 2) = "://" THEN SubSeq(s, i + 3, Len(s))
    ELSE IF CharAt(s, i) = "/" THEN s
    ELSE AfterScheme(s, i + 1)

\* the host of a url: the scheme stripped, the path discarded
HostOf(url) == SplitFirst(AfterScheme(url, 1), "/")

\* the fallback identifier the claim describes
ClaimedFallback(serverConf) ==
    IF serverConf.Command # "" THEN FirstToken(serverConf.Command)
    ELSE IF serverConf.URL # "" THEN HostOf(serverConf.URL)
    ELSE "mcp-server"

\* C9: when no ServerSet entry matches the record, the identifier is the
\* first whitespace-delimited token of command, else the host of url, else
\* "mcp-server".
C9_FallbackIdentifier ==
    (last.op = "apply" /\ NoEntryMatches(last.conf)) =>
        last.id = ClaimedFallback(last.conf)

\* the variant the claim selects: case-insensitive substring match, first
\* match wins
ClaimedVariant(name) ==
    IF Contains(ToLower(name), "claude-desktop") THEN "claude-desktop"
    ELSE IF Contains(ToLower(name), "windsurf") \/ Contains(ToLower(name), "cursor")
         THEN "windsurf"
    ELSE IF Contains(ToLower(name), "vscode") THEN "vscode"
    ELSE "generic"

\* the fragment a variant writes for a record
ClaimedEntry(variant, serverConf) ==
    CASE variant = "claude-desktop" -> ClaudeEntry(serverConf)
      [] variant = "windsurf"       -> WindsurfEntry(serverConf)
      [] variant = "vscode"         -> VSCodeEntry(serverConf)
      [] variant = "generic"        -> GenericEntry(serverConf)

\* C10: apply uses the variant selected by case-insensitive substring match
\* on the client identity, in the order claude-desktop, windsurf/cursor,
\* vscode, generic: the fragment of that variant is written into the server
\* map of that variant (for the generic variant, on a .json file).
C10_AdapterSelection ==
    (/\ last.op = "apply" /\ last.result = "ok"
     /\ ClaimedVariant(clientName) # "generic" \/ Format(configPath) = ".json") =>
        /\ IsMapping(file)
        /\ last.id \in DOMAIN ServerMap(ClaimedVariant(clientName), file)
        /\ ServerMap(ClaimedVariant(clientName), file)[last.id]
               = ClaimedEntry(ClaimedVariant(clientName), last.conf)

-----------------------------------------------------------------------------
\* the top-level key under which a variant keeps its servers
NodeKey(variant) == IF variant = "vscode" THEN "mcp" ELSE "mcpServers"

\* C11: for every JSON-based variant and every content of the existing file,
\* apply completes without crashing and the written document holds the
\* applied identifier; on a JSON mapping it keeps the mapping's keys, on any
\* other content the document is the one built from an empty mapping.
C11_ApplyTolerant ==
    (last.op = "apply" /\ JsonBased(last)) =>
        /\ last.result = "ok"
        /\ IsMapping(file)
        /\ last.id \in DOMAIN ServerMap(last.variant, file)
        /\ IsMapping(prev) => DOMAIN Top(prev) \subseteq DOMAIN Top(file)
        /\ ~IsMapping(prev) =>
               /\ DOMAIN Top(file) = {NodeKey(last.variant)}
               /\ DOMAIN ServerMap(last.variant, file) = {last.id}

\* C12: applying the record stored under key k to a claude-desktop client
\* whose file does not exist writes the document {"mcpServers": {k: e}}, e
\* being the claude-desktop fragment of the record.
C12_FreshFileApply ==
    (/\ last.op = "apply" /\ last.origin[1] = "key"
     /\ last.variant = "claude-desktop" /\ prev = <<"absent">>) =>
        file = <<"json",
                 JObj(Put(EmptyMap, "mcpServers",
                          JObj(Put(EmptyMap, last.origin[2], ClaudeEntry(last.conf)))))>>

\* C17: after a successful apply through the vscode variant the document
\* has a mapping mcp holding an inputs array and a servers mapping, and the
\* fragment of the applied identifier has an env key.
C17_VSCodeShape ==
    (last.op = "apply" /\ last.result = "ok" /\ last.variant = "vscode") =>
        /\ IsMapping(file)
        /\ IsMapAt(file[2], "mcp")
        /\ HasKey(JObj(MapAt(file[2], "mcp")), "inputs")
        /\ MapAt(file[2], "mcp")["inputs"][1] = "arr"
        /\ IsMapAt(JObj(MapAt(file[2], "mcp")), "servers")
        /\ last.id \in DOMAIN ServerMap("vscode", file)
        /\ "env" \in DOMAIN ServerMap("vscode", file)[last.id][2]

\* the extensions of the generic variant that are not JSON
NonJSONFormats == {".yaml", ".yml", ".toml"}

\* C18: after an apply through the generic variant to a .yaml, .yml or
\* .toml file, the file holds the single-identifier mapping of the applied
\* identifier and record, whatever it held before; so after several applies
\* only the last one's identifier is there.
C18_NonJSONOverwrite ==
    (/\ last.op = "apply" /\ last.variant = "generic"
     /\ Format(configPath) \in NonJSONFormats) =>
        /\ last.result = "ok"
        /\ file = <<IF Format(configPath) = ".toml" THEN "toml" ELSE "yaml",
                    last.id, last.conf>>

\* a second apply to a YAML file replaced the identifier of the first
C18_Witness ==
    /\ last.op = "apply" /\ before.op = "apply" /\ last.variant = "generic"
    /\ prev[1] = "yaml" /\ file[1] = "yaml"
    /\ prev[2] = before.id /\ file[2] = last.id /\ before.id # last.id

\* the file exists, is not empty and its content is not a JSON document
NonJSONContent(f) == f[1] \in {"text", "yaml", "toml"}

\* C19: prune on an existing, non-empty file that does not parse as JSON
\* returns success and leaves the file as it was, whatever the extension
\* and the client variant.
C19_PruneNonJSON ==
    (last.op = "prune" /\ NonJSONContent(prev)) =>
        /\ last.result = "ok"
        /\ file = prev

\* the extensions the generic variant supports
SupportedFormats == {".json", ".yaml", ".yml", ".toml"}

\* C20: apply through the generic variant to a file whose extension is not
\* supported returns an error whose message names the extension and the
\* client, and writes nothing.
C20_UnsupportedFormat ==
    (/\ last.op = "apply" /\ last.variant = "generic"
     /\ Format(configPath) \notin SupportedFormats) =>
        /\ last.result = "error"
        /\ Contains(last.err, Format(configPath))
        /\ Contains(last.err, clientName)
        /\ ~last.wrote
        /\ file = prev

\* apply to other.txt failed and left the text the file held
C20_Witness ==
    /\ last.op = "apply" /\ last.result = "error"
    /\ Format(configPath) = ".txt"
    /\ prev[1] = "text" /\ file = prev
    /\ last.err = "unsupported config format '.txt' for client other"

-----------------------------------------------------------------------------
(***************************************************************************)
(* Properties of the commands                                              *)
(***************************************************************************)
\* an apply or reload command has started (and may have ended)
InApplyOrReload == Len(events) > 0 /\ events[1][2] \in {"apply", "reload"}

\* the positions of the events of a kind for client c
EventsOf(kind, c) == {i \in DOMAIN events : events[i][1] = kind /\ events[i][2] = c}

\* the positions of the writes to the file at path p
WritesTo(p) ==
    {i \in DOMAIN events :
        events[i][1] = "apply" /\ events[i][3] = "ok" /\ cfgClients[events[i][2]] = p}

\* C13: in an apply or reload command the backup of a client is attempted
\* at most once, exactly once for every selected client when the command
\* has ended normally, and before anything is applied to that client;
\* every write of the command to the file of a client that was backed up
\* comes after that backup, and there is none when that backup returned
\* an error.
C13_BackupPrecedesMutation ==
    InApplyOrReload =>
        \A c \in DOMAIN cfgClients :
            /\ Cardinality(EventsOf("backup", c)) <= 1
            /\ \A i \in EventsOf("apply", c) :
                   \E j \in EventsOf("backup", c) : j < i
            /\ \A j \in EventsOf("backup", c) :
                   \A i \in WritesTo(cfgClients[c]) : j < i /\ events[j][3] # "error"
            /\ (exit \in {0, 1} /\ c \in selected) =>
                   Cardinality(EventsOf("backup", c)) = 1

\* the errors of a backup that come before os.Stat looks at the client's
\* path
EarlyErrors == {ExpandBackupError, ExpandClientError, MkdirError}

\* a backup of client c has just returned, and the client's file did not
\* exist when it was called
BackupOfMissing(c) ==
    /\ fs[cfgClients[c]] = <<"absent">>
    /\ Len(events') = Len(events) + 1
    /\ SubSeq(events', 1, Len(events)) = events
    /\ events'[Len(events')][1] = "backup"
    /\ events'[Len(events')][2] = c

RestoreRan ==
    /\ Len(events) > 0 /\ events[1][2] = "restore"
    /\ exit = 0 \/ failureCount > 0

\* C15: after restore, the file of every configured client of which a
\* backup was taken holds the content of the most recent backup taken of
\* that client.
C15_BackupRestoreRoundTrip ==
    RestoreRan =>
        \A c \in DOMAIN configClients :
            taken[c] # NoBackup => fs[configClients[c]] = taken[c]

\* client c failed in the command: its backup, or one of its applies
FailedClient(c) ==
    \/ \E j \in EventsOf("backup", c) : events[j][3] = "error"
    \/ \E i \in EventsOf("apply", c) : events[i][3] # "ok"

\* C16: in an apply or reload that reached its loop over the clients a
\* failure for a client ends the processing of that client, and only of
\* that client: when the command has ended every selected client has been
\* processed, the success count plus the failure count is the number of
\* selected clients, and the exit status is not zero exactly when a client
\* failed.
C16_FailureIsolation ==
    (InApplyOrReload /\ selected # {}) =>
        /\ \A c \in DOMAIN cfgClients :
               \A i \in EventsOf("apply", c) :
                   events[i][3] # "ok" => \A j \in EventsOf("apply", c) : j <= i
        /\ exit # -1 =>
               /\ \A c \in selected : EventsOf("backup", c) # {}
               /\ successCount + failureCount = Cardinality(selected)
               /\ exit # 0 <=> \E c \in selected : FailedClient(c)

-----------------------------------------------------------------------------
\* C23: a successful apply through a JSON-based variant sets the entry of
\* the resolved identifier in the variant's server map to the translated
\* fragment, and every other identifier of the server map keeps the
\* fragment it had.
C23_ApplyLeavesOthers ==
    (last.op = "apply" /\ last.result = "ok" /\ JsonBased(last)) =>
        ServerMap(last.variant, file)
            = Put(ServerMap(last.variant, prev), last.id,
                  ClaimedEntry(last.variant, last.conf))

\* an apply through the windsurf variant replaced the fragment of A in a
\* server map that also holds B and C
C23_Witness ==
    /\ last.op = "apply" /\ last.result = "ok" /\ last.variant = "windsurf"
    /\ last.id = "A"
    /\ DOMAIN ServerMap("windsurf", prev) = {"A", "B", "C"}
    /\ DOMAIN ServerMap("windsurf", file) = {"A", "B", "C"}
    /\ ServerMap("windsurf", file)["A"] # ServerMap("windsurf", prev)["A"]
    /\ ServerMap("windsurf", file)["B"] = OldEntry("old-B")

-----------------------------------------------------------------------------
\* client c is written through a JSON-based variant
JsonBasedClient(c) ==
    \/ AdapterVariant(c) \in {"claude-desktop", "windsurf", "vscode"}
    \/ Format(cfgClients[c]) = ".json"

\* C24: when the apply command has ended and a selected JSON-based client
\* did not fail, the server map of that client has an entry for every key
\* of mcp.json, and the entry is the translation of the record stored under
\* that key.
C24_ApplyAllCoverage ==
    (Len(events) > 0 /\ events[1][2] = "apply" /\ exit \in {0, 1}) =>
        \A c \in selected :
            (JsonBasedClient(c) /\ ~FailedClient(c)) =>
                \A k \in DOMAIN MCPServers :
                    /\ k \in DOMAIN ServerMap(AdapterVariant(c), fs[cfgClients[c]])
                    /\ ServerMap(AdapterVariant(c), fs[cfgClients[c]])[k]
                           = ClaimedEntry(AdapterVariant(c), MCPServers[k])

\* the names backup gives to the backups of the file of client c: those
\* of c and of every client that has the same file
BackupNamesOf(c) ==
    {BackupFileName(d, configClients[d], t) :
        d \in {e \in DOMAIN configClients : configClients[e] = configClients[c]},
        t \in 0..MaxClock}

\* C25: when restore changes the file of a client, the new content is the
\* content of a backup file that backup made of that client's file.
C25_RestoreNeverCrosses ==
    [][\A c \in DOMAIN configClients :
           (/\ events' = << <<"start", "restore", "">> >>
            /\ fs'[configClients[c]] # fs[configClients[c]]) =>
               \E fileName \in (DOMAIN backupFiles) \cap BackupNamesOf(c) :
                   fs'[configClients[c]] = backupFiles[fileName]]_vars

-----------------------------------------------------------------------------
(***************************************************************************)
(* RaceSpec: two calls of TranslateAndApply that run concurrently on one   *)
(* client file (two invocations of the tool, or two threads driving the    *)
(* translator).  A call reads the file (os.ReadFile), computes its         *)
(* document, and writes it with os.WriteFile, which opens the file with    *)
(* O_TRUNC and then writes the bytes at offset 0; nothing orders the       *)
(* steps of the two calls.  A file that holds the bytes of one document    *)
(* followed by the tail of a longer one is <<"torn", v, w>>.               *)
(***************************************************************************)
Calls == {1, 2}

\* the key of mcp.json whose record a call applies
Applied(i) == IF i = 1 THEN "A" ELSE "C"

\* the number of bytes of json.MarshalIndent(v, "", "  "), v being at
\* nesting depth d (the strings of the model need no escaping)
RECURSIVE Size(_, _)
RECURSIVE ElemsSize(_, _)
RECURSIVE FieldsSize(_, _, _)
Size(v, d) ==
    CASE v[1] = "null" -> 4
      [] v[1] = "bool" -> IF v[2] THEN 4 ELSE 5
      [] v[1] = "str"  -> Len(v[2]) + 2
      [] v[1] = "arr"  -> IF Len(v[2]) = 0 THEN 2
                          ELSE 2 * d + 3 + (Len(v[2]) - 1) + ElemsSize(v[2], d)
      [] v[1] = "obj"  -> IF DOMAIN v[2] = {} THEN 2
                          ELSE 2 * d + 3 + (Cardinality(DOMAIN v[2]) - 1)
                                   + FieldsSize(v[2], DOMAIN v[2], d)

\* newline, indentation and bytes of every element of an array at depth d
ElemsSize(a, d) ==
    IF Len(a) = 0 THEN 0
    ELSE 2 * d + 3 + Size(a[1], d + 1) + ElemsSize(Tail(a), d)

\* newline, indentation, quoted key, ": " and bytes of every member
FieldsSize(f, keys, d) ==
    IF keys = {} THEN 0
    ELSE LET k == CHOOSE x \in keys : TRUE
         IN  2 * d + 3 + Len(k) + 4 + Size(f[k], d + 1) + FieldsSize(f, keys \ {k}, d)

\* the write of os.WriteFile: the bytes of data at offset 0 of a file that
\* holds cur (what was written to it since this call truncated it)
WriteAt(data, cur) ==
    IF cur[1] = "json" /\ Size(cur[2], 0) > Size(data[2], 0)
    THEN <<"torn", data[2], cur[2]>>
    ELSE data

\* the clients whose file is written as JSON
JSONClients ==
    {c \in DOMAIN Clients :
        AdapterVariant(Clients[c][1]) # "generic" \/ Format(Clients[c][2]) = ".json"}

\* the variables of the other specifications
raceOthers == <<fanVars, confVars, cacheVars, pageVars>>

RaceInit ==
    /\ \E c \in JSONClients :
           /\ clientName = Clients[c][1]
           /\ configPath = Clients[c][2]
    /\ MCPServers = ServerSets[1]
    /\ \E f \in DOMAIN Files : file = Files[f]
    /\ prev = file
    /\ last = NoOp
    /\ before = NoOp
    /\ steps = 0
    /\ NoCommand
    /\ pc = [i \in Calls |-> "start"]
    /\ existingFile = [i \in Calls |-> <<"absent">>]
    /\ outputData = [i \in Calls |-> NoOp]
    /\ trace = <<>>
    /\ NoFanOut
    /\ NoConfig
    /\ NoCache
    /\ NoPaging

\* os.ReadFile and everything the call computes from what it read
ReadFile(i) ==
    /\ pc[i] = "start"
    /\ existingFile' = [existingFile EXCEPT ![i] = file]
    /\ \E found \in LookupIDs(MCPServers, MCPServers[Applied(i)]) :
           LET out == TranslateAndApply(clientName, configPath, found,
                                        MCPServers[Applied(i)], file)
           IN  /\ outputData' = [outputData EXCEPT ![i] = out]
               /\ pc' = [pc EXCEPT ![i] = IF out.wrote THEN "computed" ELSE "done"]
    /\ trace' = Append(trace, <<"read", i>>)
    /\ UNCHANGED <<transVars, MCPServers, cmdVars, raceOthers>>

\* os.WriteFile opens the file with O_WRONLY|O_CREATE|O_TRUNC
OpenFile(i) ==
    /\ pc[i] = "computed"
    /\ file' = <<"empty">>
    /\ pc' = [pc EXCEPT ![i] = "opened"]
    /\ trace' = Append(trace, <<"open", i>>)
    /\ UNCHANGED <<clientName, configPath, prev, last, before, steps, MCPServers,
                   cmdVars, existingFile, outputData, raceOthers>>

\* os.WriteFile writes the document and closes the file
WriteFile(i) ==
    /\ pc[i] = "opened"
    /\ file' = WriteAt(outputData[i].file, file)
    /\ pc' = [pc EXCEPT ![i] = "done"]
    /\ trace' = Append(trace, <<"write", i>>)
    /\ UNCHANGED <<clientName, configPath, prev, last, before, steps, MCPServers,
                   cmdVars, existingFile, outputData, raceOthers>>

RaceNext == \E i \in Calls : ReadFile(i) \/ OpenFile(i) \/ WriteFile(i)

RaceSpec == RaceInit /\ [][RaceNext]_vars

\* both calls have returned
BothDone == \A i \in Calls : pc[i] = "done"

\* the calls that wrote, and the one whose write came last
Wrote(i) == \E p \in DOMAIN trace : trace[p] = <<"write", i>>

LastWriter ==
    CHOOSE i \in Calls :
        \E p \in DOMAIN trace :
            /\ trace[p] = <<"write", i>>
            /\ \A q \in DOMAIN trace : trace[q][1] = "write" => q <= p

\* the calls ran one after the other
OneAfterTheOther ==
    \E i \in Calls :
        \A p, q \in DOMAIN trace : (trace[p][2] = i /\ trace[q][2] # i) => p < q

\* C26: when both concurrent calls have returned, the file holds the
\* document written by the call whose write came last; and when the calls
\* ran one after the other and both wrote, the server map holds both
\* identifiers.
C26_LastWriterWins ==
    (BothDone /\ \E i \in Calls : Wrote(i)) =>
        /\ file = outputData[LastWriter].file
        /\ (OneAfterTheOther /\ \A i \in Calls : Wrote(i)) =>
               \A i \in Calls :
                   Applied(i) \in DOMAIN ServerMap(AdapterVariant(clientName), file)

-----------------------------------------------------------------------------
(***************************************************************************)
(* FanSpec: the registry fan-out of list (listCmd.Run) and of use          *)
(* (getAvailableServerChoices): the command starts one goroutine per       *)
(* registry, each fetches, takes the mutex, records its result and         *)
(* releases the mutex; the command waits on the WaitGroup and then reads   *)
(* the result map.                                                         *)
(***************************************************************************)
MaxRegistries == 2

\* the names of the configured registries (add registry refuses a name
\* that is there already)
RegistryNames == <<"glama", "local", "mirror", "extra">>

Registry(i) == [Name |-> RegistryNames[i], URL |-> "https://" \o RegistryNames[i] \o ".io"]

\* what FetchMCPList returns: versions and no error; no versions and no
\* error (a cached or fetched list that is empty, a cache file that cannot
\* be read); nil and an error
FetchOutcomes(r) ==
    { [versions |-> <<r.Name \o "-1.0">>, err |-> ""],
      [versions |-> <<>>, err |-> ""],
      [versions |-> <<>>, err |-> "failed to fetch from " \o r.URL] }

fanOthers == <<transVars, MCPServers, cmdVars, raceVars, confVars, cacheVars, pageVars>>

FanInit ==
    /\ \E n \in 1..MaxRegistries : registries = [i \in 1..n |-> Registry(i)]
    /\ mode \in {"list", "use"}
    /\ next = 1
    /\ mainPc = "loop"
    /\ worker = [i \in DOMAIN registries |-> "idle"]
    /\ fetchResult = [i \in DOMAIN registries |-> [versions |-> <<>>, err |-> ""]]
    /\ mu = 0
    /\ wg = 0
    /\ registryResults = EmptyMap
    /\ collected = EmptyMap
    /\ clientName = ""
    /\ configPath = ""
    /\ file = <<"absent">>
    /\ prev = <<"absent">>
    /\ last = NoOp
    /\ before = NoOp
    /\ steps = 0
    /\ MCPServers = EmptyMap
    /\ NoCommand
    /\ NoRace
    /\ NoConfig
    /\ NoCache
    /\ NoPaging

\* wg.Add(1); go func(r config.Registry) {...}(reg)
Spawn ==
    /\ mainPc = "loop"
    /\ next <= Len(registries)
    /\ wg' = wg + 1
    /\ worker' = [worker EXCEPT ![next] = "fetch"]
    /\ next' = next + 1
    /\ UNCHANGED <<registries, mode, mainPc, fetchResult, mu, registryResults,
                   collected, fanOthers>>

\* versions, err := registry.FetchMCPList(r.URL)
Fetch(i) ==
    /\ worker[i] = "fetch"
    /\ \E r \in FetchOutcomes(registries[i]) :
           fetchResult' = [fetchResult EXCEPT ![i] = r]
    /\ worker' = [worker EXCEPT ![i] = "lock"]
    /\ UNCHANGED <<registries, mode, next, mainPc, mu, wg, registryResults,
                   collected, fanOthers>>

\* mu.Lock()
Lock(i) ==
    /\ worker[i] = "lock"
    /\ mu = 0
    /\ mu' = i
    /\ worker' = [worker EXCEPT ![i] = "locked"]
    /\ UNCHANGED <<registries, mode, next, mainPc, fetchResult, wg,
                   registryResults, collected, fanOthers>>

\* the result map after the goroutine of registry r recorded res: list
\* records <error> for a failure, use records nothing
Recorded(m, results, r, res) ==
    IF res.err = "" THEN Put(results, r.Name, res.versions)
    ELSE IF m = "list" THEN Put(results, r.Name, <<"<error>">>)
    ELSE results

\* if err != nil {...} else { registryResults[r.Name] = versions }
Record(i) ==
    /\ worker[i] = "locked"
    /\ registryResults' = Recorded(mode, registryResults, registries[i], fetchResult[i])
    /\ worker' = [worker EXCEPT ![i] = "unlock"]
    /\ UNCHANGED <<registries, mode, next, mainPc, fetchResult, mu, wg, collected,
                   fanOthers>>

\* defer mu.Unlock()
Unlock(i) ==
    /\ worker[i] = "unlock"
    /\ mu' = 0
    /\ worker' = [worker EXCEPT ![i] = "finish"]
    /\ UNCHANGED <<registries, mode, next, mainPc, fetchResult, wg,
                   registryResults, collected, fanOthers>>

\* defer wg.Done()
Done(i) ==
    /\ worker[i] = "finish"
    /\ wg' = wg - 1
    /\ worker' = [worker EXCEPT ![i] = "done"]
    /\ UNCHANGED <<registries, mode, next, mainPc, fetchResult, mu,
                   registryResults, collected, fanOthers>>

WaitReturnsAtOnce(counter) == TRUE

\* wg.Wait() returns when the counter is zero
WaitReturns(counter) == counter = 0

\* wg.Wait(), after the loop
Wait ==
    /\ mainPc = "loop"
    /\ next > Len(registries)
    /\ WaitReturns(wg)
    /\ mainPc' = "read"
    /\ UNCHANGED <<registries, mode, next, worker, fetchResult, mu, wg,
                   registryResults, collected, fanOthers>>

\* the loops over the result map after the join
ReadResults ==
    /\ mainPc = "read"
    /\ collected' = registryResults
    /\ mainPc' = "done"
    /\ UNCHANGED <<registries, mode, next, worker, fetchResult, mu, wg,
                   registryResults, fanOthers>>

FanNext ==
    \/ Spawn
    \/ \E i \in DOMAIN registries : Fetch(i)
    \/ \E i \in DOMAIN registries : Lock(i)
    \/ \E i \in DOMAIN registries : Record(i)
    \/ \E i \in DOMAIN registries : Unlock(i)
    \/ \E i \in DOMAIN registries : Done(i)
    \/ Wait
    \/ ReadResults

FanSpec == FanInit /\ [][FanNext]_vars

\* a list or use command is in the fan-out or has left it
InFanOut == mode \in {"list", "use"}

\* C27: one goroutine per registry; a goroutine that is at its write to the
\* result map holds the mutex; the command reads the result map only after
\* every goroutine has finished, and what it reads holds the outcome of
\* every registry (the versions of a registry that answered, whatever the
\* others did); the command is never stuck before it has read.
C27_RegistryFanOut ==
    InFanOut =>
        /\ DOMAIN worker = DOMAIN registries
        /\ \A i \in DOMAIN registries : worker[i] \in {"locked", "unlock"} => mu = i
        /\ mainPc \in {"read", "done"} =>
               \A i \in DOMAIN registries : worker[i] = "done"
        /\ mainPc = "done" =>
               \A i \in DOMAIN registries :
                   collected = Recorded(mode, collected, registries[i], fetchResult[i])
        /\ mainPc # "done" => ENABLED FanNext

\* a list command has read the results of two registries: the first one
\* failed, the second one answered
C27_Witness ==
    /\ mode = "list" /\ mainPc = "done" /\ Len(registries) >= 2
    /\ fetchResult[1].err # "" /\ fetchResult[2].err = ""
    /\ collected[registries[1].Name] = <<"<error>">>
    /\ collected[registries[2].Name] = fetchResult[2].versions

-----------------------------------------------------------------------------
(***************************************************************************)
(* ConfSpec: config.yaml, LoadConfig and SaveConfig, and the commands add  *)
(* registry, remove registry, use and search.  A Config is a record of its *)
(* Go fields: SelectedMCP, which LoadConfig's package and use go by, and   *)
(* MCPs, which search and the tests of the package go by.                  *)
(* A nil slice or map and an empty one are both the empty value (yaml      *)
(* writes both as [] and {} and the code only takes their length).  The    *)
(* file holds <<"yaml", d>>, d being the mapping yaml.Marshal writes, with *)
(* the keys of the yaml tags.  yaml.v3 quotes what needs quoting, so a     *)
(* string is read back as it was written.  Besides, the file may be        *)
(* <<"absent">>, <<"dir">> (os.ReadFile and os.WriteFile fail),            *)
(* <<"empty">> (no YAML document: Unmarshal leaves cfg as it is) or        *)
(* <<"text", s>>, bytes that are not YAML.                                 *)
(***************************************************************************)
MaxConfOps == 3

Config(version, regs, selectedMCP, clients, path, retention) ==
    [Version |-> version, Registries |-> regs, SelectedMCP |-> selectedMCP,
     MCPs |-> <<>>,
     Clients |-> clients, Backups |-> [Path |-> path, Retention |-> retention]]

\* the config with MCPs: mcps
WithMCPs(cfg, mcps) == [cfg EXCEPT !.MCPs = mcps]

RegistryOf(name, url) == [Name |-> name, URL |-> url]

DefaultRegistries == <<RegistryOf("glama", "https://glama.ai/api/mcp/v1/servers")>>

\* getConfigDir(): filepath.Join(homeDir, ".config", "mcpetes")
ConfigDir == Join(Join(HomeDir, ".config"), "mcpetes")

GetDefaultConfig == Config(0, DefaultRegistries, "", EmptyMap, Join(ConfigDir, "backups"), 0)

\* yaml.Marshal(cfg)
MarshalConfig(cfg) ==
    <<"yaml",
      [version |-> cfg.Version,
       registries |-> [i \in DOMAIN cfg.Registries |->
                          [name |-> cfg.Registries[i].Name, url |-> cfg.Registries[i].URL]],
       selected_mcp |-> cfg.SelectedMCP,
       mcps |-> cfg.MCPs,
       clients |-> [k \in DOMAIN cfg.Clients |-> [config_path |-> cfg.Clients[k].ConfigPath]],
       backups |-> [path |-> cfg.Backups.Path, retention |-> cfg.Backups.Retention]]>>

\* yaml.Unmarshal(data, &cfg): a key the document lacks leaves the zero value
UnmarshalConfig(d) ==
  WithMCPs(
    Config(IF "version" \in DOMAIN d THEN d.version ELSE 0,
           IF "registries" \in DOMAIN d
           THEN [i \in DOMAIN d.registries |->
                    RegistryOf(d.registries[i].name, d.registries[i].url)]
           ELSE <<>>,
           IF "selected_mcp" \in DOMAIN d THEN d.selected_mcp ELSE "",
           IF "clients" \in DOMAIN d
           THEN [k \in DOMAIN d.clients |-> [ConfigPath |-> d.clients[k].config_path]]
           ELSE EmptyMap,
           IF "backups" \in DOMAIN d THEN d.backups.path ELSE "",
           IF "backups" \in DOMAIN d THEN d.backups.retention ELSE 0),
    IF "mcps" \in DOMAIN d THEN d.mcps ELSE <<>>)

\* SaveConfig(cfg), cfg not nil: the error and the file afterwards
SaveConfig(cfg, f) ==
    IF f = <<"dir">>
    THEN [err |-> "failed to write config file", file |-> f]
    ELSE [err |-> "", file |-> MarshalConfig(cfg)]

\* the registries LoadConfig keeps
LoadedRegistries(regs) == IF Len(regs) = 0 THEN DefaultRegistries ELSE regs

\* LoadConfig(): the config, the error and the file afterwards
LoadConfig(f) ==
    IF f = <<"absent">>
    THEN LET s == SaveConfig(GetDefaultConfig, f)
         IN  [cfg |-> GetDefaultConfig, err |-> s.err, file |-> s.file]
    ELSE IF f = <<"dir">>
    THEN [cfg |-> GetDefaultConfig, err |-> "failed to read config file", file |-> f]
    ELSE IF f[1] = "text"
    THEN [cfg |-> GetDefaultConfig, err |-> "failed to parse config file", file |-> f]
    ELSE LET cfg == IF f = <<"empty">> THEN UnmarshalConfig(EmptyMap)
                    ELSE UnmarshalConfig(f[2])
         IN  [cfg |-> [cfg EXCEPT !.Registries = LoadedRegistries(cfg.Registries)],
              err |-> "", file |-> f]

\* the names of a list of registries
NamesOf(regs) == {regs[i].Name : i \in DOMAIN regs}

\* the configs handed to SaveConfig
ConfigInputs ==
    << WithMCPs(Config(1, <<RegistryOf("official", "http://example.com/index.json")>>, "",
                       [k \in {"cursor"} |-> [ConfigPath |-> "~/.cursor/config.json"]],
                       "~/.config/mcpetes/backups", 0),
                <<"server-a">>),
       Config(1, <<>>, "", [k \in {"vscode"} |-> [ConfigPath |-> "settings.json"]],
              "/tmp/mcpetes_backups", 3),
       Config(0, <<RegistryOf("glama", "https://glama.ai"), RegistryOf("local", "file:///tmp/index.json")>>,
              "", EmptyMap, "", 0),
       Config(0, <<>>, "", EmptyMap, "", 0) >>

\* what config.yaml holds at the start
ConfigFiles ==
    << <<"absent">>,
       <<"text", "registries: [">>,
       <<"dir">>,
       <<"empty">>,
       MarshalConfig(GetDefaultConfig),
       MarshalConfig(ConfigInputs[1]),
       MarshalConfig(ConfigInputs[3]),
       <<"yaml", [version |-> 1]>>,
       MarshalConfig(Config(1, <<RegistryOf("local", "file:///tmp/index.json")>>, "",
                            EmptyMap, "", 0)) >>

\* the names and urls given to add registry and remove registry
RegistryArgs == <<RegistryOf("glama", "https://glama.ai"),
                  RegistryOf("local", "file:///tmp/index.json")>>

ConfOp(op, arg, err) == [op |-> op, arg |-> arg, err |-> err]

confOthers == <<transVars, MCPServers, cmdVars, raceVars, fanVars, cacheVars, pageVars>>

ConfInit ==
    /\ \E f \in DOMAIN ConfigFiles : configFile = ConfigFiles[f]
    /\ saved = GetDefaultConfig
    /\ loaded = [cfg |-> GetDefaultConfig, err |-> "", file |-> <<"absent">>]
    /\ confOp = ConfOp("none", "", "")
    /\ removed = {}
    /\ using = NoUse
    /\ confSteps = 0
    /\ clientName = ""
    /\ configPath = ""
    /\ file = <<"absent">>
    /\ prev = <<"absent">>
    /\ last = NoOp
    /\ before = NoOp
    /\ steps = 0
    /\ MCPServers = EmptyMap
    /\ NoCommand
    /\ NoRace
    /\ NoFanOut
    /\ NoCache
    /\ NoPaging

\* cfg, err := config.LoadConfig()
Load ==
    /\ confSteps < MaxConfOps
    /\ loaded' = LoadConfig(configFile)
    /\ configFile' = loaded'.file
    /\ confOp' = ConfOp("load", "", loaded'.err)
    /\ confSteps' = confSteps + 1
    /\ UNCHANGED <<saved, removed, using, confOthers>>

\* SaveConfig(c) followed by LoadConfig()
SaveThenLoad ==
    /\ confSteps < MaxConfOps
    /\ \E c \in DOMAIN ConfigInputs :
           LET s == SaveConfig(ConfigInputs[c], configFile)
           IN  /\ saved' = ConfigInputs[c]
               /\ loaded' = LoadConfig(s.file)
               /\ configFile' = loaded'.file
               /\ confOp' = ConfOp("roundtrip", "", s.err)
               /\ removed' = IF s.err = "" THEN removed \ NamesOf(ConfigInputs[c].Registries)
                             ELSE removed
    /\ confSteps' = confSteps + 1
    /\ UNCHANGED <<using, confOthers>>

\* add registry name url
AddRegistry ==
    /\ confSteps < MaxConfOps
    /\ \E a \in DOMAIN RegistryArgs, l \in {LoadConfig(configFile)} :
           LET exists == RegistryArgs[a].Name \in NamesOf(l.cfg.Registries)
               cfg == [l.cfg EXCEPT !.Registries = Append(@, RegistryArgs[a])]
               s == SaveConfig(cfg, l.file)
               err == IF l.err # "" THEN l.err
                      ELSE IF exists THEN "already exists" ELSE s.err
           IN  /\ configFile' = IF l.err = "" /\ ~exists THEN s.file ELSE l.file
               /\ confOp' = ConfOp("add", RegistryArgs[a].Name, err)
               /\ removed' = IF err = "" THEN removed \ {RegistryArgs[a].Name} ELSE removed
    /\ confSteps' = confSteps + 1
    /\ UNCHANGED <<saved, loaded, using, confOthers>>

\* the index of the first registry named name, 0 when there is none
FoundIndex(regs, name) ==
    IF name \in NamesOf(regs)
    THEN CHOOSE i \in DOMAIN regs :
             regs[i].Name = name /\ \A j \in 1..(i - 1) : regs[j].Name # name
    ELSE 0

\* append(regs[:foundIndex], regs[foundIndex+1:]...)
RemoveAt(regs, i) == SubSeq(regs, 1, i - 1) \o SubSeq(regs, i + 1, Len(regs))

\* remove registry name
RemoveRegistry ==
    /\ confSteps < MaxConfOps
    /\ \E a \in DOMAIN RegistryArgs, l \in {LoadConfig(configFile)} :
           LET foundIndex == FoundIndex(l.cfg.Registries, RegistryArgs[a].Name)
               cfg == [l.cfg EXCEPT !.Registries = RemoveAt(@, foundIndex)]
               s == SaveConfig(cfg, l.file)
               err == IF l.err # "" THEN l.err
                      ELSE IF foundIndex = 0 THEN "not found" ELSE s.err
           IN  /\ configFile' = IF l.err = "" /\ foundIndex # 0 THEN s.file ELSE l.file
               /\ confOp' = ConfOp("remove", RegistryArgs[a].Name, err)
               /\ removed' = IF err = "" THEN removed \cup {RegistryArgs[a].Name} ELSE removed
    /\ confSteps' = confSteps + 1
    /\ UNCHANGED <<saved, loaded, using, confOthers>>

\* the server IDs given to use and search; use without an argument can
\* come to no selection
ServerIDs == <<"server-a", "">>

\* use [server-id], up to the choice of the server: cfg, err :=
\* config.LoadConfig(), and os.Exit(1) on an error.  The command keeps cfg
\* while it fetches the registries and waits for the user, and other
\* commands may run before it saves (one use waits at a time).
UseLoad ==
    /\ confSteps < MaxConfOps
    /\ using = NoUse
    /\ \E l \in {LoadConfig(configFile)} :
           /\ configFile' = l.file
           /\ using' = IF l.err = "" THEN <<"cfg", l.cfg>> ELSE NoUse
           /\ confOp' = ConfOp("use", "", l.err)
    /\ confSteps' = confSteps + 1
    /\ UNCHANGED <<saved, loaded, removed, confOthers>>

\* use [server-id], from the choice of the server on: the config loaded at
\* the start is saved with SelectedMCP set.  Nothing is saved when no
\* server is selected, or when the choices or the prompt fail (failed).
UseSave ==
    /\ using # NoUse
    /\ using' = NoUse
    /\ \E i \in DOMAIN ServerIDs, failed \in BOOLEAN :
           LET serverID == ServerIDs[i]
               s == SaveConfig([using[2] EXCEPT !.SelectedMCP = serverID], configFile)
               saves == ~failed /\ serverID # ""
           IN  /\ configFile' = IF saves THEN s.file ELSE configFile
               /\ confOp' = ConfOp("use", serverID,
                                   IF failed THEN "selection failed"
                                   ELSE IF saves THEN s.err ELSE "")
    /\ UNCHANGED <<saved, loaded, removed, confSteps, confOthers>>

\* search [server-id]: the loaded config is saved with the server appended
\* to MCPs
Search ==
    /\ confSteps < MaxConfOps
    /\ \E i \in {j \in DOMAIN ServerIDs : ServerIDs[j] # ""},
          l \in {LoadConfig(configFile)} :
           LET serverID == ServerIDs[i]
               s == SaveConfig([l.cfg EXCEPT !.MCPs = Append(@, serverID)], l.file)
           IN  /\ configFile' = IF l.err = "" THEN s.file ELSE l.file
               /\ confOp' = ConfOp("search", serverID,
                                   IF l.err # "" THEN l.err ELSE s.err)
    /\ confSteps' = confSteps + 1
    /\ UNCHANGED <<saved, loaded, removed, using, confOthers>>

ConfNext ==
    \/ Load \/ SaveThenLoad \/ AddRegistry \/ RemoveRegistry \/ UseLoad \/ UseSave
    \/ Search

ConfSpec == ConfInit /\ [][ConfNext]_vars

\* C22: SaveConfig(c) followed by LoadConfig() returns a config equal to c,
\* for every c, those with an empty registry list or no clients included.
C22_ConfigRoundTrip ==
    (confOp.op = "roundtrip" /\ confOp.err = "") =>
        /\ loaded.err = ""
        /\ loaded.cfg = saved

\* C29: a LoadConfig that comes after a successful remove registry N, with
\* no add of N in between, returns no registry named N.
C29_RemoveSticks ==
    (confOp.op = "load" /\ confOp.err = "") =>
        \A n \in removed : n \notin NamesOf(loaded.cfg.Registries)

-----------------------------------------------------------------------------
(***************************************************************************)
(* CacheSpec: the response cache (ReadCache, WriteCache, ReadServerCache,  *)
(* WriteServerCache) and the two fetchers that go through it.  Time is in  *)
(* minutes.  The cache file of a url is named by the SHA-256 of the url;   *)
(* the model takes the url itself as the key.  A cache file holds          *)
(*    <<"absent">>            no file                                      *)
(*    <<"dir">>               something os.ReadFile and os.WriteFile fail  *)
(*                            on (a directory at the path)                 *)
(*    <<"text", s>>           bytes that are not JSON                      *)
(*    <<"entry", t, vs>>      a CacheEntry: timestamp t, versions vs       *)
(*    <<"servers", t, ss>>    a ServerCacheEntry: timestamp t, servers ss  *)
(* A nil slice and an empty one are both <<>>.  A fetcher reads the cache, *)
(* waits for the network and then writes the cache: the call and its       *)
(* return are two steps, and two goroutines (or processes) can be between  *)
(* them at once while time passes and other calls run.                     *)
(***************************************************************************)
cacheTTL == 60

MaxCacheOps == 2

\* the characters of a string
CharsOf(str) == {CharAt(str, i) : i \in 1..Len(str)}

LetterChars == CharsOf(LowerCase) \cup CharsOf(UpperCase)
DigitChars == CharsOf(Digits)
HexChars == DigitChars \cup CharsOf("abcdefABCDEF")

\* A string of the model holds the bytes of the Go string, each byte written
\* as the character of that code.  The bytes 0x20..0x7e in order, but 0x60
\* (no string of the model holds a grave accent), and the bytes 0x80..0xff
PrintableBytes == " !\"#$%&'()*+,-./0123456789:;<=>?@ABCDEFGHIJKLMNOPQRSTUVWXYZ[\\]^_abcdefghijklmnopqrstuvwxyz{|}~"

HighBytes == " ¡¢£¤¥¦§¨©ª«¬­®¯°±²³´µ¶·¸¹º»¼½¾¿ÀÁÂÃÄÅÆÇÈÉÊËÌÍÎÏÐÑÒÓÔÕÖ×ØÙÚÛÜÝÞßàáâãäåæçèéêëìíîïðñòóôõö÷øùúûüýþÿ"

HighChars == CharsOf(HighBytes)

NotCTLChars == CharsOf(PrintableBytes) \cup HighChars

\* stringContainsCTLByte(s): a byte below 0x20, or 0x7f
StringContainsCTLByte(str) == \E i \in 1..Len(str) : CharAt(str, i) \notin NotCTLChars

\* unhex(c) of a hexadecimal digit
Unhex(c) ==
    CHOOSE v \in 0..15 : c \in {CharAt("0123456789abcdef", v + 1),
                                CharAt("0123456789ABCDEF", v + 1)}

\* the byte of the escape %XX at position i: unhex(s[i+1])<<4 | unhex(s[i+2])
EscapedByte(str, i) == 16 * Unhex(CharAt(str, i + 1)) + Unhex(CharAt(str, i + 2))

\* the character of a byte that is in one of the two tables
ByteChar(v) ==
    IF v >= 128 THEN CharAt(HighBytes, v - 127)
    ELSE IF v > 96 THEN CharAt(PrintableBytes, v - 32)
    ELSE CharAt(PrintableBytes, v - 31)

\* the ASCII characters url.Parse accepts in a host unescaped
HostChars == LetterChars \cup DigitChars \cup CharsOf("-_.~!$&'()*+,;=:[]<>\"")

\* the characters validUserinfo accepts
UserinfoChars == LetterChars \cup DigitChars \cup CharsOf("-._:~!$&'()*+,;=%@")

\* strings.LastIndex for a one-character separator, counted from 1; 0 when absent
RECURSIVE LastIndexFrom(_, _, _)
LastIndexFrom(str, c, i) ==
    IF i = 0 THEN 0
    ELSE IF CharAt(str, i) = c THEN i
    ELSE LastIndexFrom(str, c, i - 1)

LastIndexChar(str, c) == LastIndexFrom(str, c, Len(str))

\* strings.Index(s, sub), counted from 1; 0 when absent
IndexOf(str, sub) ==
    IF Contains(str, sub)
    THEN CHOOSE i \in 1..(Len(str) + 1) :
             /\ i + Len(sub) - 1 <= Len(str)
             /\ SubSeq(str, i, i + Len(sub) - 1) = sub
             /\ \A j \in 1..(i - 1) : SubSeq(str, j, j + Len(sub) - 1) # sub
    ELSE 0

\* getScheme(rawURL): <<scheme, rest, err>>
RECURSIVE GetSchemeFrom(_, _)
GetSchemeFrom(rawURL, i) ==
    IF i > Len(rawURL) THEN <<"", rawURL, FALSE>>
    ELSE IF CharAt(rawURL, i) \in LetterChars THEN GetSchemeFrom(rawURL, i + 1)
    ELSE IF CharAt(rawURL, i) \in DigitChars \cup {"+", "-", "."}
    THEN IF i = 1 THEN <<"", rawURL, FALSE>> ELSE GetSchemeFrom(rawURL, i + 1)
    ELSE IF CharAt(rawURL, i) = ":"
    THEN IF i = 1 THEN <<"", "", TRUE>>
         ELSE <<SubSeq(rawURL, 1, i - 1), SubSeq(rawURL, i + 1, Len(rawURL)), FALSE>>
    ELSE <<"", rawURL, FALSE>>

\* unescape accepts the % escapes of the string: each % is followed by two
\* hexadecimal digits
ValidEscapes(str) ==
    \A i \in 1..Len(str) :
        CharAt(str, i) = "%" =>
            /\ i + 2 <= Len(str)
            /\ CharAt(str, i + 1) \in HexChars
            /\ CharAt(str, i + 2) \in HexChars

\* unescape in the modes encodeHost and encodeZone accepts the string: no
\* ASCII character that must be escaped in a host; in a host no escape of an
\* ASCII byte but %25; in a zone no escape but %25, %20 and those of the
\* ASCII bytes a host can hold unescaped
ValidHost(str, zone) ==
    /\ ValidEscapes(str)
    /\ \A i \in 1..Len(str) :
           IF CharAt(str, i) = "%"
           THEN IF zone
                THEN \/ SubSeq(str, i, i + 2) \in {"%25", "%20"}
                     \/ \E v \in {EscapedByte(str, i)} :
                            /\ v \in (33..126) \ {96}
                            /\ ByteChar(v) \in HostChars
                ELSE \/ Unhex(CharAt(str, i + 1)) >= 8
                     \/ SubSeq(str, i, i + 2) = "%25"
           ELSE CharAt(str, i) \in HostChars \cup HighChars

\* the string unescape returns for a string it accepts in the modes
\* encodeHost and encodeZone, from position i on
RECURSIVE UnescapeFrom(_, _)
UnescapeFrom(str, i) ==
    IF i > Len(str) THEN ""
    ELSE IF CharAt(str, i) = "%"
    THEN ByteChar(EscapedByte(str, i)) \o UnescapeFrom(str, i + 3)
    ELSE CharAt(str, i) \o UnescapeFrom(str, i + 1)

\* validOptionalPort(port)
ValidOptionalPort(port) ==
    IF port = "" THEN TRUE
    ELSE /\ CharAt(port, 1) = ":"
         /\ \A i \in 2..Len(port) : CharAt(port, i) \in DigitChars

\* parseHost(host) returns no error
ParseHostOK(host) ==
    IF HasPrefix(host, "[")
    THEN /\ LastIndexChar(host, "]") # 0
         /\ ValidOptionalPort(SubSeq(host, LastIndexChar(host, "]") + 1, Len(host)))
         /\ LET i == LastIndexChar(host, "]")
                zone == IndexOf(SubSeq(host, 1, i - 1), "%25")
            IN  IF zone # 0
                THEN /\ ValidHost(SubSeq(host, 1, zone - 1), FALSE)
                     /\ ValidHost(SubSeq(host, zone, i - 1), TRUE)
                     /\ ValidHost(SubSeq(host, i, Len(host)), FALSE)
                ELSE ValidHost(host, FALSE)
    ELSE /\ LastIndexChar(host, ":") # 0 =>
                ValidOptionalPort(SubSeq(host, LastIndexChar(host, ":"), Len(host)))
         /\ ValidHost(host, FALSE)

\* parseAuthority(authority): <<host, err>>; the host is what unescape
\* returns for its parts (host1 + host2 + host3 with a zone), which is the
\* text with every escape decoded
ParseAuthority(authority) ==
    LET i == LastIndexChar(authority, "@")
        host == SubSeq(authority, i + 1, Len(authority))
        userinfo == SubSeq(authority, 1, i - 1)
    IN  IF ~ParseHostOK(host) THEN <<"", TRUE>>
        ELSE IF i = 0 THEN <<UnescapeFrom(host, 1), FALSE>>
        ELSE IF ~(CharsOf(userinfo) \subseteq UserinfoChars) \/ ~ValidEscapes(userinfo)
        THEN <<"", TRUE>>
        ELSE <<UnescapeFrom(host, 1), FALSE>>

ParsedURL(scheme, host, err) == [Scheme |-> scheme, Host |-> host, err |-> err]

\* parse(rawURL, false), rawURL without its fragment
ParseNoFragment(rawURL) ==
    LET gs == GetSchemeFrom(rawURL, 1)
        scheme == ToLower(gs[1])
        rest == SplitFirst(gs[2], "?")
        hasAuthority == (scheme # "" \/ ~HasPrefix(rest, "///")) /\ HasPrefix(rest, "//")
        afterSlashes == SubSeq(rest, 3, Len(rest))
        authority == SplitFirst(afterSlashes, "/")
        path == IF hasAuthority THEN SubSeq(afterSlashes, Len(authority) + 1, Len(afterSlashes))
                ELSE rest
        parsed == ParseAuthority(authority)
    IN  IF StringContainsCTLByte(rawURL) THEN ParsedURL("", "", TRUE)
        ELSE IF rawURL = "" \/ rawURL = "*" THEN ParsedURL("", "", FALSE)
        ELSE IF gs[3] THEN ParsedURL("", "", TRUE)
        ELSE IF ~HasPrefix(rest, "/") /\ scheme # "" THEN ParsedURL(scheme, "", FALSE)
        ELSE IF ~HasPrefix(rest, "/") /\ Contains(SplitFirst(rest, "/"), ":")
        THEN ParsedURL("", "", TRUE)
        ELSE IF hasAuthority /\ parsed[2] THEN ParsedURL("", "", TRUE)
        ELSE IF ~ValidEscapes(path) THEN ParsedURL("", "", TRUE)
        ELSE ParsedURL(scheme, IF hasAuthority THEN parsed[1] ELSE "", FALSE)

\* url.Parse(rawURL): the fragment is cut off, the rest parsed, the fragment
\* unescaped; an error of either step is the error of Parse
Parse(rawURL) ==
    LET u == SplitFirst(rawURL, "#")
        frag == SubSeq(rawURL, Len(u) + 2, Len(rawURL))
    IN  IF ValidEscapes(frag) THEN ParseNoFragment(u) ELSE ParsedURL("", "", TRUE)

\* parsedURL.Scheme and parsedURL.Host ("" when url.Parse fails)
ParsedScheme(u) == Parse(u).Scheme

ParsedHost(u) == Parse(u).Host

\* getCachePath(registryURL) returns an error
GetCachePathFails(u) ==
    \E parsedURL \in {Parse(u)} :
        parsedURL.err \/ parsedURL.Scheme = "" \/ parsedURL.Host = ""

\* the content of the cache file with key k
CacheFile(files, k) == IF k \in DOMAIN files THEN files[k] ELSE <<"absent">>

\* ReadCache(registryURL) at time t
ReadCache(u, files, t) ==
    LET f == CacheFile(files, u)
    IN  IF GetCachePathFails(u)
        THEN [versions |-> <<>>, cacheMiss |-> TRUE, err |-> "failed to get cache path"]
        ELSE IF f = <<"absent">>
        THEN [versions |-> <<>>, cacheMiss |-> TRUE, err |-> ""]
        ELSE IF f = <<"dir">>
        THEN [versions |-> <<>>, cacheMiss |-> FALSE, err |-> "failed to read cache file"]
        ELSE IF f[1] = "text"
        THEN [versions |-> <<>>, cacheMiss |-> TRUE, err |-> ""]
        ELSE IF t - f[2] > cacheTTL
        THEN [versions |-> <<>>, cacheMiss |-> TRUE, err |-> ""]
        ELSE [versions |-> IF f[1] = "entry" THEN f[3] ELSE <<>>,
              cacheMiss |-> FALSE, err |-> ""]

\* WriteCache(registryURL, versions) at time t: the error and the files
WriteCache(u, versions, files, t) ==
    IF GetCachePathFails(u)
    THEN [err |-> "failed to get cache path for writing", files |-> files]
    ELSE IF CacheFile(files, u) = <<"dir">>
    THEN [err |-> "failed to write cache file", files |-> files]
    ELSE [err |-> "", files |-> Put(files, u, <<"entry", t, versions>>)]

\* ReadServerCache(registryURL) at time t
ReadServerCache(u, files, t) ==
    LET f == CacheFile(files, u \o "-servers")
    IN  IF GetCachePathFails(u \o "-servers")
        THEN [servers |-> <<>>, cacheMiss |-> FALSE, err |-> "failed to get server cache path"]
        ELSE IF f = <<"absent">>
        THEN [servers |-> <<>>, cacheMiss |-> TRUE, err |-> ""]
        ELSE IF f = <<"dir">>
        THEN [servers |-> <<>>, cacheMiss |-> FALSE, err |-> "failed to read server cache file"]
        ELSE IF f[1] = "text"
        THEN [servers |-> <<>>, cacheMiss |-> TRUE, err |-> ""]
        ELSE IF t - f[2] > cacheTTL
        THEN [servers |-> <<>>, cacheMiss |-> TRUE, err |-> ""]
        ELSE [servers |-> IF f[1] = "servers" THEN f[3] ELSE <<>>,
              cacheMiss |-> FALSE, err |-> ""]

\* WriteServerCache(registryURL, servers) at time t
WriteServerCache(u, servers, files, t) ==
    IF GetCachePathFails(u \o "-servers")
    THEN [err |-> "failed to get server cache path for writing", files |-> files]
    ELSE IF CacheFile(files, u \o "-servers") = <<"dir">>
    THEN [err |-> "failed to write server cache file", files |-> files]
    ELSE [err |-> "", files |-> Put(files, u \o "-servers", <<"servers", t, servers>>)]

GlamaBase == "https://glama.ai/api/mcp/v1/servers"

\* the regular expression ^https?://glama\.ai(/.*)?$
\* (. matches no newline and $ only the end of the text)
IsGlama(u) ==
    \E p \in {"http://glama.ai", "https://glama.ai"} :
        \/ u = p
        \/ /\ HasPrefix(u, p \o "/")
           /\ ~Contains(SubSeq(u, Len(p) + 2, Len(u)), "\n")

\* formatRegistryURL(url)
FormatRegistryURL(u) ==
    IF IsGlama(u)
    THEN IF Contains(u, "?")
         THEN GlamaBase \o "?" \o SubSeq(u, IndexChar(u, "?") + 1, Len(u))
         ELSE GlamaBase
    ELSE u

ServerData(name) == [Name |-> name, Description |-> "", RepositoryURL |-> ""]

\* what the HTTP fetch of the versions comes to: versions, or an error
ListResponses == { [versions |-> <<"net-1.0">>, err |-> ""],
                   [versions |-> <<>>, err |-> "failed to fetch"] }

\* what FetchMCPServers comes to: servers, or an error
ServerResponses == { [servers |-> <<ServerData("net-srv")>>, err |-> ""],
                     [servers |-> <<>>, err |-> "failed to fetch"] }

\* FetchMCPList(url): read is what its cache.ReadCache returned; on a miss
\* resp is what the network answers, and files and t are the cache files
\* and the time when the answer is there
FetchMCPList(u0, read, resp, files, t) ==
    LET u == FormatRegistryURL(u0)
    IN  IF ~read.cacheMiss
        THEN [versions |-> read.versions, err |-> "", files |-> files,
              fetched |-> FALSE, readErr |-> read.err]
        ELSE IF resp.err # ""
        THEN [versions |-> <<>>, err |-> resp.err, files |-> files,
              fetched |-> TRUE, readErr |-> read.err]
        ELSE [versions |-> resp.versions, err |-> "",
              files |-> WriteCache(u, resp.versions, files, t).files,
              fetched |-> TRUE, readErr |-> read.err]

\* FetchMCPServersWithCache(registryURL, forceRefresh): read is what its
\* cache.ReadServerCache returned (not called under forceRefresh); resp,
\* files and t as for FetchMCPList
FetchMCPServersWithCache(u0, forceRefresh, read, resp, files, t) ==
    LET u == FormatRegistryURL(u0)
    IN  IF ~forceRefresh /\ ~read.cacheMiss
        THEN [servers |-> read.servers, err |-> "", files |-> files,
              fetched |-> FALSE, readErr |-> read.err]
        ELSE IF resp.err # ""
        THEN [servers |-> <<>>, err |-> resp.err, files |-> files,
              fetched |-> TRUE, readErr |-> IF forceRefresh THEN "" ELSE read.err]
        ELSE [servers |-> resp.servers, err |-> "",
              files |-> WriteServerCache(u, resp.servers, files, t).files,
              fetched |-> TRUE, readErr |-> IF forceRefresh THEN "" ELSE read.err]

\* ClearServerCache(registryURL): os.Remove removes a file and an empty
\* directory and fails on a directory that is not empty (removable tells
\* which of the two a directory at the path is)
ClearServerCache(u, files, removable) ==
    IF GetCachePathFails(u \o "-servers")
    THEN [err |-> "failed to get server cache path for clearing", files |-> files]
    ELSE IF CacheFile(files, u \o "-servers") = <<"dir">> /\ ~removable
    THEN [err |-> "failed to remove server cache file", files |-> files]
    ELSE [err |-> "", files |-> Without(files, {u \o "-servers"})]

\* the registry urls of the model
CacheURLs == <<"https://r.io/index.json", "https://r.io/index.json-servers",
               "://force-error", "https://glama.ai">>

\* no WriteCache for the url yet
NoWrite == <<"none">>

\* the cache files at the start: the version cache of the first url, and
\* its server cache
InitialCaches ==
    LET u == CacheURLs[1]
        only(c) == [k \in {u} |-> c]
    IN  << EmptyMap,
           only(<<"dir">>),
           only(<<"text", "{\"timestamp\":\"not-a-time\"">>),
           only(<<"entry", 0, <<"1.0.0", "2.0.0">>>>),
           only(<<"entry", 0 - cacheTTL, <<"1.0.0">>>>),
           only(<<"entry", 0 - cacheTTL - 1, <<"old">>>>),
           [k \in {u \o "-servers"} |-> <<"dir">>],
           [k \in {u \o "-servers"} |-> <<"servers", 0, <<ServerData("cached-srv")>>>>] >>

\* the goroutines (or processes) that can be in a fetcher at once
Goroutines == {1, 2}

\* what a goroutine holds while its fetcher waits for the network: the call
\* and what its cache read returned
Waiting(op, u, forceRefresh, read, at, seen) ==
    [pc |-> "fetch", op |-> op, url |-> u, forceRefresh |-> forceRefresh,
     cacheMiss |-> read.cacheMiss, readErr |-> read.err, at |-> at, seen |-> seen]

NotWaiting ==
    [pc |-> "idle", op |-> "none", url |-> 0, forceRefresh |-> FALSE,
     cacheMiss |-> TRUE, readErr |-> "", at |-> 0, seen |-> <<"absent">>]

\* the cache read of a waiting goroutine, as the fetcher holds it
ReadOf(w) == [versions |-> <<>>, servers |-> <<>>, cacheMiss |-> w.cacheMiss, err |-> w.readErr]

\* g is the first goroutine that is in no fetcher
FirstFree(g) ==
    /\ inFlight[g].pc = "idle"
    /\ \A h \in Goroutines : h < g => inFlight[h].pc # "idle"

\* the record of a cache operation: at is the time of the call and seen
\* the cache file it looked at
CacheOp(op, u, versions, servers, cacheMiss, err, fetched, readErr, at, seen) ==
    [op |-> op, url |-> u, versions |-> versions, servers |-> servers,
     cacheMiss |-> cacheMiss, err |-> err, fetched |-> fetched, readErr |-> readErr,
     at |-> at, seen |-> seen]

cacheOthers == <<transVars, MCPServers, cmdVars, raceVars, fanVars, confVars, pageVars>>

CacheInit ==
    /\ \E c \in DOMAIN InitialCaches : cacheFiles = InitialCaches[c]
    /\ now = 0
    /\ cacheOp = CacheOp("none", 0, <<>>, <<>>, TRUE, "", FALSE, "", 0, <<"absent">>)
    /\ written = [i \in DOMAIN CacheURLs |->
                     IF CacheFile(cacheFiles, CacheURLs[i])[1] = "entry"
                     THEN CacheFile(cacheFiles, CacheURLs[i])[3] ELSE NoWrite]
    /\ cacheSteps = 0
    /\ inFlight = [g \in Goroutines |-> NotWaiting]
    /\ clientName = ""
    /\ configPath = ""
    /\ file = <<"absent">>
    /\ prev = <<"absent">>
    /\ last = NoOp
    /\ before = NoOp
    /\ steps = 0
    /\ MCPServers = EmptyMap
    /\ NoCommand
    /\ NoRace
    /\ NoFanOut
    /\ NoConfig
    /\ NoPaging

\* a call of ReadCache
CallReadCache ==
    /\ cacheSteps < MaxCacheOps
    /\ \E i \in DOMAIN CacheURLs :
           \E r \in {ReadCache(CacheURLs[i], cacheFiles, now)} :
               cacheOp' = CacheOp("ReadCache", i, r.versions, <<>>, r.cacheMiss, r.err,
                                  FALSE, r.err, now, CacheFile(cacheFiles, CacheURLs[i]))
    /\ cacheSteps' = cacheSteps + 1
    /\ UNCHANGED <<cacheFiles, now, written, inFlight, cacheOthers>>

\* a call of WriteCache
CallWriteCache ==
    /\ cacheSteps < MaxCacheOps
    /\ \E i \in DOMAIN CacheURLs :
           \E w \in {WriteCache(CacheURLs[i], <<"3.0.0">>, cacheFiles, now)} :
               /\ cacheFiles' = w.files
               /\ written' = IF w.err = "" THEN [written EXCEPT ![i] = <<"3.0.0">>]
                             ELSE written
               /\ cacheOp' = CacheOp("WriteCache", i, <<"3.0.0">>, <<>>, TRUE, w.err,
                                     FALSE, "", now, CacheFile(cacheFiles, CacheURLs[i]))
    /\ cacheSteps' = cacheSteps + 1
    /\ UNCHANGED <<now, inFlight, cacheOthers>>

\* the url whose version cache FetchMCPList(CacheURLs[i]) writes, as an
\* index of CacheURLs (0 when it is none of them)
WrittenIndex(i) ==
    IF \E j \in DOMAIN CacheURLs : CacheURLs[j] = FormatRegistryURL(CacheURLs[i])
    THEN CHOOSE j \in DOMAIN CacheURLs : CacheURLs[j] = FormatRegistryURL(CacheURLs[i])
    ELSE 0

\* a call of FetchMCPList up to the HTTP request: a hit returns, a miss
\* goes on to the network
CallFetchMCPList ==
    /\ cacheSteps < MaxCacheOps
    /\ \E g \in Goroutines, i \in DOMAIN CacheURLs :
         \E u \in {FormatRegistryURL(CacheURLs[i])} :
           \E read \in {ReadCache(u, cacheFiles, now)} :
             \E r \in {FetchMCPList(CacheURLs[i], read, [versions |-> <<>>, err |-> ""],
                                    cacheFiles, now)} :
               /\ FirstFree(g)
               /\ IF ~r.fetched
                  THEN /\ cacheOp' = CacheOp("FetchMCPList", i, r.versions, <<>>,
                                             read.cacheMiss, r.err, FALSE, r.readErr,
                                             now, CacheFile(cacheFiles, u))
                       /\ UNCHANGED inFlight
                  ELSE /\ inFlight' = [inFlight EXCEPT ![g] =
                              Waiting("FetchMCPList", i, FALSE, read, now,
                                      CacheFile(cacheFiles, u))]
                       /\ UNCHANGED cacheOp
    /\ cacheSteps' = cacheSteps + 1
    /\ UNCHANGED <<cacheFiles, now, written, cacheOthers>>

\* the network answers a FetchMCPList: an error returns, versions are
\* written to the cache and returned
ReturnFetchMCPList ==
    \E g \in Goroutines, resp \in ListResponses :
      \E w \in {inFlight[g]} :
        /\ w.pc = "fetch"
        /\ w.op = "FetchMCPList"
        /\ \E r \in {FetchMCPList(CacheURLs[w.url], ReadOf(w), resp, cacheFiles, now)} :
            /\ cacheFiles' = r.files
            /\ written' = IF r.files # cacheFiles /\ WrittenIndex(w.url) # 0
                          THEN [written EXCEPT ![WrittenIndex(w.url)] = r.versions]
                          ELSE written
            /\ cacheOp' = CacheOp("FetchMCPList", w.url, r.versions, <<>>, w.cacheMiss,
                                  r.err, r.fetched, r.readErr, w.at, w.seen)
            /\ inFlight' = [inFlight EXCEPT ![g] = NotWaiting]
            /\ UNCHANGED <<now, cacheSteps, cacheOthers>>

\* a call of FetchMCPServersWithCache up to FetchMCPServers
CallFetchMCPServersWithCache ==
    /\ cacheSteps < MaxCacheOps
    /\ \E g \in Goroutines, i \in DOMAIN CacheURLs, forceRefresh \in BOOLEAN :
         \E u \in {FormatRegistryURL(CacheURLs[i])} :
           \E read \in {IF forceRefresh
                         THEN [servers |-> <<>>, cacheMiss |-> TRUE, err |-> ""]
                         ELSE ReadServerCache(u, cacheFiles, now)} :
             \E r \in {FetchMCPServersWithCache(CacheURLs[i], forceRefresh, read,
                                                [servers |-> <<>>, err |-> ""],
                                                cacheFiles, now)} :
               /\ FirstFree(g)
               /\ IF ~r.fetched
                  THEN /\ cacheOp' = CacheOp("FetchMCPServersWithCache", i, <<>>,
                                             r.servers, read.cacheMiss, r.err, FALSE,
                                             r.readErr, now,
                                             CacheFile(cacheFiles, u \o "-servers"))
                       /\ UNCHANGED inFlight
                  ELSE /\ inFlight' = [inFlight EXCEPT ![g] =
                              Waiting("FetchMCPServersWithCache", i, forceRefresh, read,
                                      now, CacheFile(cacheFiles, u \o "-servers"))]
                       /\ UNCHANGED cacheOp
    /\ cacheSteps' = cacheSteps + 1
    /\ UNCHANGED <<cacheFiles, now, written, cacheOthers>>

\* FetchMCPServers returns to a FetchMCPServersWithCache: an error
\* returns, servers are written to the cache and returned
ReturnFetchMCPServersWithCache ==
    \E g \in Goroutines, resp \in ServerResponses :
      \E w \in {inFlight[g]} :
        /\ w.pc = "fetch"
        /\ w.op = "FetchMCPServersWithCache"
        /\ \E r \in {FetchMCPServersWithCache(CacheURLs[w.url], w.forceRefresh, ReadOf(w),
                                               resp, cacheFiles, now)} :
            /\ cacheFiles' = r.files
            /\ cacheOp' = CacheOp("FetchMCPServersWithCache", w.url, <<>>, r.servers,
                                  w.cacheMiss, r.err, r.fetched, r.readErr, w.at, w.seen)
            /\ inFlight' = [inFlight EXCEPT ![g] = NotWaiting]
            /\ UNCHANGED <<now, written, cacheSteps, cacheOthers>>

\* a call of ClearServerCache
CallClearServerCache ==
    /\ cacheSteps < MaxCacheOps
    /\ \E i \in DOMAIN CacheURLs, removable \in BOOLEAN :
           \E c \in {ClearServerCache(CacheURLs[i], cacheFiles, removable)} :
               /\ cacheFiles' = c.files
               /\ cacheOp' = CacheOp("ClearServerCache", i, <<>>, <<>>, TRUE, c.err,
                                     FALSE, "", now,
                                     CacheFile(cacheFiles, CacheURLs[i] \o "-servers"))
    /\ cacheSteps' = cacheSteps + 1
    /\ UNCHANGED <<now, written, inFlight, cacheOthers>>

\* time passes: a minute, or the time to live
Elapse ==
    /\ cacheSteps < MaxCacheOps
    /\ \E d \in {1, cacheTTL} : now' = now + d
    /\ cacheSteps' = cacheSteps + 1
    /\ UNCHANGED <<cacheFiles, cacheOp, written, inFlight, cacheOthers>>

CacheNext ==
    \/ CallReadCache
    \/ CallWriteCache
    \/ CallFetchMCPList
    \/ ReturnFetchMCPList
    \/ CallFetchMCPServersWithCache
    \/ ReturnFetchMCPServersWithCache
    \/ CallClearServerCache
    \/ Elapse

CacheSpec == CacheInit /\ [][CacheNext]_vars

\* the cache file of the url of the call existed, parsed, and was at most
\* cacheTTL old
ValidEntry ==
    /\ ~GetCachePathFails(CacheURLs[cacheOp.url])
    /\ cacheOp.seen[1] \in {"entry", "servers"}
    /\ cacheOp.at - cacheOp.seen[2] <= cacheTTL

\* the cache file was absent, unparsable or expired
MissingEntry ==
    /\ ~GetCachePathFails(CacheURLs[cacheOp.url])
    /\ \/ cacheOp.seen[1] \in {"absent", "text"}
       \/ cacheOp.seen[1] \in {"entry", "servers"} /\ cacheOp.at - cacheOp.seen[2] > cacheTTL

\* C21: ReadCache(url) reports a hit exactly when a cache file for url
\* exists, parses and is at most cacheTTL old, and then returns the
\* versions of the last WriteCache(url, v); on an absent, unparsable or
\* expired file it reports a miss with nil versions and no error.
C21_CacheHit ==
    cacheOp.op = "ReadCache" =>
        /\ ~cacheOp.cacheMiss <=> ValidEntry
        /\ ~cacheOp.cacheMiss => cacheOp.versions = written[cacheOp.url]
        /\ MissingEntry =>
               cacheOp.cacheMiss /\ cacheOp.versions = <<>> /\ cacheOp.err = ""

\* C28: when the cache read of FetchMCPList or FetchMCPServersWithCache
\* fails with an error, the call goes on to the network fetch and does not
\* return a cached result.
C28_CacheErrorIsMiss ==
    (/\ cacheOp.op \in {"FetchMCPList", "FetchMCPServersWithCache"}
     /\ cacheOp.readErr # "") =>
        cacheOp.fetched

-----------------------------------------------------------------------------
(***************************************************************************)
(* PageSpec: the page loop of FetchMCPServers and FetchMCPList on a        *)
(* registry that answers in the Glama format.  The registry is a function  *)
(* from the cursor of a request ("" for the request of the url itself) to  *)
(* its response: a failure, or a page with its endCursor and hasNextPage.  *)
(* Every request returns (the HTTP client has a timeout of 10 seconds),    *)
(* and the function keeps running until it returns: PageNext is weakly     *)
(* fair.                                                                   *)
(***************************************************************************)
Cursors == {"", "c1", "c2"}

FailedPage == [ok |-> FALSE, endCursor |-> "", hasNextPage |-> FALSE]

Page(endCursor, more) == [ok |-> TRUE, endCursor |-> endCursor, hasNextPage |-> more]

\* the responses a registry can give to one request
Responses == {FailedPage} \cup {Page(c, b) : c \in Cursors, b \in BOOLEAN}

HasSuffix(str, suffix) ==
    Len(suffix) <= Len(str) /\ SubSeq(str, Len(str) - Len(suffix) + 1, Len(str)) = suffix

\* paginatedURL of an iteration
PaginatedURL(fn, u, c) ==
    IF c = "" THEN u
    ELSE IF fn = "FetchMCPList"
    THEN (IF ~HasSuffix(u, "?") THEN u \o "?" ELSE u) \o "after=" \o c \o "&first=100"
    ELSE (IF ~Contains(u, "?") THEN u \o "?"
          ELSE IF ~HasSuffix(u, "?") /\ ~HasSuffix(u, "&") THEN u \o "&"
          ELSE u) \o "after=" \o c \o "&first=100"

pageOthers == <<transVars, MCPServers, cmdVars, raceVars, fanVars, confVars, cacheVars>>

PageInit ==
    /\ fetcher \in {"FetchMCPList", "FetchMCPServers"}
    /\ registryURL \in {GlamaBase, GlamaBase \o "?first=10"}
    /\ pages \in [Cursors -> Responses]
    /\ cursor = ""
    /\ hasNextPage = FALSE
    /\ pagePc = "first"
    /\ requested = {}
    /\ repeated = FALSE
    /\ clientName = ""
    /\ configPath = ""
    /\ file = <<"absent">>
    /\ prev = <<"absent">>
    /\ last = NoOp
    /\ before = NoOp
    /\ steps = 0
    /\ MCPServers = EmptyMap
    /\ NoCommand
    /\ NoRace
    /\ NoFanOut
    /\ NoConfig
    /\ NoCache

\* the request of the url itself: an error returns, a page starts the loop
FetchFirst ==
    /\ pagePc = "first"
    /\ requested' = {registryURL}
    /\ IF pages[""].ok
       THEN /\ cursor' = pages[""].endCursor
            /\ hasNextPage' = pages[""].hasNextPage
            /\ pagePc' = "loop"
       ELSE /\ pagePc' = "done"
            /\ UNCHANGED <<cursor, hasNextPage>>
    /\ UNCHANGED <<fetcher, registryURL, pages, repeated, pageOthers>>

\* an iteration of for index.PageInfo.HasNextPage {...} builds paginatedURL
\* and sends the request
Request ==
    /\ pagePc = "loop"
    /\ hasNextPage
    /\ requested' = requested \cup {PaginatedURL(fetcher, registryURL, cursor)}
    /\ repeated' = (repeated \/ PaginatedURL(fetcher, registryURL, cursor) \in requested)
    /\ pagePc' = "request"
    /\ UNCHANGED <<fetcher, registryURL, pages, cursor, hasNextPage, pageOthers>>

\* the response: a failure breaks out of the loop, a page sets cursor and
\* index.PageInfo.HasNextPage for the next iteration
Respond ==
    /\ pagePc = "request"
    /\ IF pages[cursor].ok
       THEN /\ cursor' = pages[cursor].endCursor
            /\ hasNextPage' = pages[cursor].hasNextPage
            /\ pagePc' = "loop"
       ELSE /\ pagePc' = "done"
            /\ UNCHANGED <<cursor, hasNextPage>>
    /\ UNCHANGED <<fetcher, registryURL, pages, requested, repeated, pageOthers>>

\* the loop condition is false: the function goes on to return
EndLoop ==
    /\ pagePc = "loop"
    /\ ~hasNextPage
    /\ pagePc' = "done"
    /\ UNCHANGED <<fetcher, registryURL, pages, cursor, hasNextPage, requested, repeated,
                   pageOthers>>

PageNext == FetchFirst \/ Request \/ Respond \/ EndLoop

PageSpec == PageInit /\ [][PageNext]_vars /\ WF_vars(PageNext)

\* C30: the page loop ends, and no url is requested twice.
C30_PaginationTerminates == <>(pagePc = "done") /\ [](~repeated)

=============================================================================
